---------------------------- MODULE Spec2Model ----------------------------
(***************************************************************************)
(* A model of neurographite: the hypergraph store (src/src/hypergraph.rs), *)
(* the spiking-neural engine (src/src/neural.rs) and the Database          *)
(* coordinator (src/src/core.rs).                                          *)
(*                                                                         *)
(* f64 values are modelled as exact rationals <<n, d>> in lowest terms     *)
(* with d > 0; Uuids are small integers (the engine orders them with <);   *)
(* DateTime<Utc> values are integers counting milliseconds.                *)
(***************************************************************************)
EXTENDS Integers, Sequences, FiniteSets, TLC

VARIABLES
    graph,          \* Database.graph: the HyperGraph behind the store lock
    neural_state,   \* SpikeProcessor.neural_state: the NeuralState
    config,         \* DatabaseConfig, consumed once at construction
    now,            \* the wall clock read by Utc::now()
    last_op,        \* the last call made and what it returned
    ops,            \* how many calls have been made (bounds the model)
    decays,         \* how many decay sweeps have run (bounds the model)
    casc,           \* the locals of a running simulate_cascade call
    tasks,          \* the coordinator call each client task is running
    locks,          \* the store's and the engine's tokio RwLock
    disk,           \* the snapshot file written by StorageEngine
    acked,          \* how many writes have returned to their clients
    reply           \* what the last query returned

dbvars == <<tasks, locks, disk, acked, reply>>
vars == <<graph, neural_state, config, now, last_op, ops, decays, casc, dbvars>>

-----------------------------------------------------------------------------
(* Bounds of the model.                                                    *)

MaxNodes == 2        \* node ids are 1..MaxNodes
MaxEdges == 2        \* edge ids are 1..MaxEdges
MaxLen == 2          \* longest participant list passed to add_hyperedge
MaxOps == 4          \* calls (and clock steps) per behaviour of the store
MaxEngineOps == 3    \* calls per behaviour of the engine
MaxTicks == 2        \* clock steps per behaviour of the engine
MaxDecays == 1       \* decay sweeps per behaviour

TickMs == 50         \* one clock step, in milliseconds

NodeIds == 1..MaxNodes
EdgeIds == 1..MaxEdges

-----------------------------------------------------------------------------
(* f64 arithmetic on exact rationals.                                      *)

RECURSIVE GCD(_, _)
GCD(a, b) == IF b = 0 THEN a ELSE GCD(b, a % b)

IAbs(i) == IF i < 0 THEN -i ELSE i

Rat(n, d) == LET g == GCD(IAbs(n), d) IN <<n \div g, d \div g>>

Zero == <<0, 1>>
One == <<1, 1>>

\* x * y, cross-reduced first so that intermediate products stay small
RMul(x, y) ==
    LET g1 == GCD(IAbs(x[1]), y[2])
        g2 == GCD(IAbs(y[1]), x[2])
    IN  <<(x[1] \div g1) * (y[1] \div g2), (x[2] \div g2) * (y[2] \div g1)>>

\* a/b < c/d for b, d > 0, by continued-fraction comparison (no products)
RECURSIVE FracLt(_, _, _, _)
FracLt(a, b, c, d) ==
    LET qa == a \div b
        qc == c \div d
        ra == a % b
        rc == c % d
    IN  IF qa # qc THEN qa < qc
        ELSE IF rc = 0 THEN FALSE
        ELSE IF ra = 0 THEN TRUE
        ELSE FracLt(d, rc, b, ra)

RLt(x, y) == FracLt(x[1], x[2], y[1], y[2])
RGt(x, y) == RLt(y, x)
RLe(x, y) == ~RLt(y, x)
RGe(x, y) == ~RLt(x, y)
RMax(x, y) == IF RLt(x, y) THEN y ELSE x
RMin(x, y) == IF RLt(y, x) THEN y ELSE x
RNeg(x) == <<-x[1], x[2]>>
RAbs(x) == <<IAbs(x[1]), x[2]>>
RAdd(x, y) == Rat(x[1] * y[2] + y[1] * x[2], x[2] * y[2])
RSub(x, y) == RAdd(x, RNeg(y))

\* the f64 values that are not numbers of the real line: denominator 0
NaN == <<0, 0>>
Inf == <<1, 0>>
NegInf == <<-1, 0>>
IsFinite(x) == x[2] # 0

\* the sign of an f64 that is not NaN
Sign(x) == IF x[1] > 0 THEN 1 ELSE IF x[1] < 0 THEN -1 ELSE 0

\* IEEE 754 multiplication and addition, NaN and the infinities included
F64Mul(x, y) ==
    IF IsFinite(x) /\ IsFinite(y) THEN RMul(x, y)
    ELSE IF x = NaN \/ y = NaN \/ Sign(x) * Sign(y) = 0 THEN NaN
    ELSE <<Sign(x) * Sign(y), 0>>

F64Add(x, y) ==
    IF IsFinite(x) /\ IsFinite(y) THEN RAdd(x, y)
    ELSE IF x = NaN \/ y = NaN THEN NaN
    ELSE IF ~IsFinite(x) /\ ~IsFinite(y) /\ x # y THEN NaN
    ELSE IF IsFinite(x) THEN y ELSE x

\* IEEE 754 `<`: false when either side is NaN
F64Lt(x, y) ==
    IF x = NaN \/ y = NaN THEN FALSE
    ELSE IF IsFinite(x) /\ IsFinite(y) THEN RLt(x, y)
    ELSE IF x = y THEN FALSE
    ELSE x = NegInf \/ y = Inf

\* f64::clamp: `if self < min { min } else if self > max { max } else
\* { self }`, so NaN stays NaN
F64Clamp(x, lo, hi) ==
    IF F64Lt(x, lo) THEN lo ELSE IF F64Lt(hi, x) THEN hi ELSE x

-----------------------------------------------------------------------------
(* Collections.                                                            *)

Range(s) == {s[i] : i \in DOMAIN s}

\* HashMap::insert: add the key or overwrite its value
Put(f, k, v) == [x \in DOMAIN f \cup {k} |-> IF x = k THEN v ELSE f[x]]

EmptyMap == [x \in {} |-> 0]

None == "None"

SeqsUpTo(S, n) == UNION {[1..k -> S] : k \in 0..n}

-----------------------------------------------------------------------------
(* The hypergraph store, src/src/hypergraph.rs.                            *)

\* HyperGraph::new
NewGraph ==
    [nodes |-> EmptyMap, edges |-> EmptyMap,
     node_to_edges |-> EmptyMap, edge_to_nodes |-> EmptyMap]

\* the HyperNode built by add_node (data, node_type, tags and properties
\* are opaque to every operation modelled here and are left out)
NewNode(t) ==
    [created_at |-> t, updated_at |-> t, activation_level |-> Zero,
     last_spike_time |-> None, spike_count |-> 0]

\* the HyperEdge built by add_hyperedge
NewEdge(node_ids, strength, t) ==
    [node_ids |-> node_ids, strength |-> strength,
     created_at |-> t, updated_at |-> t, conductance |-> strength,
     last_activation |-> None, activation_count |-> 0,
     edge_type |-> "Symmetric", weight_decay |-> <<99, 100>>]

\* HyperGraph::add_node: no check of the id, both inserts overwrite
add_node(g, id, t) ==
    [ok |-> TRUE,
     g |-> [g EXCEPT !.nodes = Put(g.nodes, id, NewNode(t)),
                     !.node_to_edges = Put(g.node_to_edges, id, {})]]

\* a mutant of the validation loop: only the first participant is looked up
AllNodesExistFirstOnly(g, node_ids) ==
    node_ids = <<>> \/ node_ids[1] \in DOMAIN g.nodes

\* a mutant of the validation loop: nothing is looked up
AllNodesExistUnchecked(g, node_ids) == TRUE

\* the validation loop of add_hyperedge
AllNodesExist(g, node_ids) ==
    \A i \in DOMAIN node_ids : node_ids[i] \in DOMAIN g.nodes

\* the adjacency loop of add_hyperedge: entry(n).or_insert_with(new).insert(id)
LinkNodes(n2e, node_ids, id) ==
    [n \in DOMAIN n2e \cup Range(node_ids) |->
        (IF n \in DOMAIN n2e THEN n2e[n] ELSE {})
            \cup (IF n \in Range(node_ids) THEN {id} ELSE {})]

\* a mutant of add_hyperedge: the edge is inserted before the validation
add_hyperedgeInsertFirst(g, id, node_ids, strength, t) ==
    LET g1 == [g EXCEPT
                !.edges = Put(g.edges, id, NewEdge(node_ids, strength, t)),
                !.edge_to_nodes = Put(g.edge_to_nodes, id, node_ids)]
    IN  IF ~AllNodesExist(g, node_ids)
        THEN [ok |-> FALSE, g |-> g1]
        ELSE [ok |-> TRUE,
              g |-> [g1 EXCEPT !.node_to_edges =
                        LinkNodes(g.node_to_edges, node_ids, id)]]

\* HyperGraph::add_hyperedge
add_hyperedge(g, id, node_ids, strength, t) ==
    IF ~AllNodesExist(g, node_ids)
    THEN [ok |-> FALSE, g |-> g]
    ELSE [ok |-> TRUE,
          g |-> [g EXCEPT
                  !.edges = Put(g.edges, id, NewEdge(node_ids, strength, t)),
                  !.edge_to_nodes = Put(g.edge_to_nodes, id, node_ids),
                  !.node_to_edges = LinkNodes(g.node_to_edges, node_ids, id)]]

\* HyperGraph::get_node_edges: the edges of node_to_edges[n] that exist
get_node_edges(g, n) ==
    IF n \in DOMAIN g.node_to_edges
    THEN {e \in g.node_to_edges[n] : e \in DOMAIN g.edges}
    ELSE {}

\* HyperGraph::get_neighbors: the ids, as a set (the Vec's order is the
\* iteration order of a HashSet)
get_neighbors(g, n) ==
    LET co == IF n \in DOMAIN g.node_to_edges
              THEN UNION {IF e \in DOMAIN g.edge_to_nodes
                          THEN Range(g.edge_to_nodes[e]) \ {n} ELSE {}
                          : e \in g.node_to_edges[n]}
              ELSE {}
    IN  {m \in co : m \in DOMAIN g.nodes}

SpikeLevel == <<7, 10>>

\* HyperGraph::update_node_activation
update_node_activation(g, id, a, t) ==
    IF id \in DOMAIN g.nodes
    THEN LET n == g.nodes[id]
             spiked == RGt(a, SpikeLevel)
         IN [ok |-> TRUE,
             g |-> [g EXCEPT !.nodes[id] =
                     [n EXCEPT !.activation_level = a,
                               !.updated_at = t,
                               !.last_spike_time = IF spiked THEN t ELSE @,
                               !.spike_count = IF spiked THEN @ + 1 ELSE @]]]
    ELSE [ok |-> FALSE, g |-> g]

\* HyperGraph::update_edge_conductance
update_edge_conductance(g, id, c, t) ==
    IF id \in DOMAIN g.edges
    THEN [ok |-> TRUE,
          g |-> [g EXCEPT !.edges[id] =
                  [@ EXCEPT !.conductance = c,
                            !.last_activation = t,
                            !.activation_count = @ + 1,
                            !.updated_at = t]]]
    ELSE [ok |-> FALSE, g |-> g]

\* a mutant of the decay: the conductances are multiplied by decay_rate
apply_decayOneRate(g, decay_rate) ==
    [g EXCEPT
      !.nodes = [n \in DOMAIN g.nodes |->
                  [g.nodes[n] EXCEPT !.activation_level = RMul(@, decay_rate)]],
      !.edges = [e \in DOMAIN g.edges |->
                  [g.edges[e] EXCEPT !.conductance = RMul(@, decay_rate)]]]

\* HyperGraph::apply_decay
apply_decay(g, decay_rate) ==
    [g EXCEPT
      !.nodes = [n \in DOMAIN g.nodes |->
                  [g.nodes[n] EXCEPT !.activation_level = RMul(@, decay_rate)]],
      !.edges = [e \in DOMAIN g.edges |->
                  [g.edges[e] EXCEPT
                    !.conductance = RMul(@, g.edges[e].weight_decay)]]]

node_count(g) == Cardinality(DOMAIN g.nodes)
edge_count(g) == Cardinality(DOMAIN g.edges)

-----------------------------------------------------------------------------
(* The configuration, src/src/core.rs.                                     *)

\* DatabaseConfig::default
DefaultConfig ==
    [spike_threshold |-> <<7, 10>>, decay_rate |-> <<99, 100>>,
     refractory_period |-> 100, max_cascade_depth |-> 10]

\* the DatabaseConfig of test_custom_configuration
CustomConfig ==
    [spike_threshold |-> <<1, 2>>, decay_rate |-> <<19, 20>>,
     refractory_period |-> 50, max_cascade_depth |-> 5]

\* a DatabaseConfig with no refractory period (the field is any u64)
ZeroRefractoryConfig == [DefaultConfig EXCEPT !.refractory_period = 0]

-----------------------------------------------------------------------------
(* The neural engine, src/src/neural.rs.                                   *)

\* the NeuralState built by SpikeProcessor::new
NewNeuralState ==
    [activations |-> EmptyMap, spike_history |-> <<>>,
     refractory_until |-> EmptyMap, synaptic_weights |-> EmptyMap,
     total_spikes |-> 0, processing_cycles |-> 0, last_update |-> 0]

\* SpikeProcessor::process_new_node
process_new_node(st, node_id) ==
    [st EXCEPT !.activations = Put(@, node_id, Zero)]

\* a mutant of the refractory check: no node is ever held back
InRefractoryNever(st, node_id, t) == FALSE

\* the refractory check of propagate_spike
InRefractory(st, node_id, t) ==
    /\ node_id \in DOMAIN st.refractory_until
    /\ t < st.refractory_until[node_id]

\* a mutant of the loop's turn: the spike reaches every node of the engine
SpikeOneSpreading(st, node_id, initial_strength, t, cfg) ==
    IF node_id \in DOMAIN st.refractory_until
         /\ t < st.refractory_until[node_id]
    THEN st
    ELSE [st EXCEPT
           !.activations =
               [n \in DOMAIN @ \cup {node_id} |-> initial_strength],
           !.refractory_until =
               Put(@, node_id, t + cfg.refractory_period),
           !.spike_history =
               Append(@, [node_id |-> node_id, timestamp |-> t,
                          intensity |-> initial_strength,
                          propagation_depth |-> 0]),
           !.total_spikes = @ + 1]

\* one turn of the loop of propagate_spike
SpikeOne(st, node_id, initial_strength, t, cfg) ==
    IF InRefractory(st, node_id, t)
    THEN st
    ELSE [st EXCEPT
           !.activations = Put(@, node_id, initial_strength),
           !.refractory_until =
               Put(@, node_id, t + cfg.refractory_period),
           !.spike_history =
               Append(@, [node_id |-> node_id, timestamp |-> t,
                          intensity |-> initial_strength,
                          propagation_depth |-> 0]),
           !.total_spikes = @ + 1]

\* the loop of propagate_spike over source_nodes[i..]
RECURSIVE SpikeFrom(_, _, _, _, _, _)
SpikeFrom(st, source_nodes, i, initial_strength, t, cfg) ==
    IF i > Len(source_nodes)
    THEN st
    ELSE SpikeFrom(SpikeOne(st, source_nodes[i], initial_strength, t, cfg),
                   source_nodes, i + 1, initial_strength, t, cfg)

\* a mutant of the propagation: only the first source is spiked
propagate_spikeFirstOnly(st, source_nodes, initial_strength, t, cfg) ==
    [SpikeFrom(st, SubSeq(source_nodes, 1, 1), 1, initial_strength, t, cfg)
        EXCEPT !.last_update = t]

\* SpikeProcessor::propagate_spike
propagate_spike(st, source_nodes, initial_strength, t, cfg) ==
    [SpikeFrom(st, source_nodes, 1, initial_strength, t, cfg)
        EXCEPT !.last_update = t]

\* the fixed learning rate of update_synaptic_weights
LearningRate == <<1, 100>>

\* a mutant of the Hebbian update: the key is the pair as it was passed
update_synaptic_weightsAsPassed(st, node1, node2, correlation) ==
    LET key == <<node1, node2>>
        current_weight == IF key \in DOMAIN st.synaptic_weights
                          THEN st.synaptic_weights[key] ELSE Zero
        new_weight == F64Add(current_weight, F64Mul(LearningRate, correlation))
    IN  [st EXCEPT !.synaptic_weights =
            Put(@, key, F64Clamp(new_weight, RNeg(One), One))]

\* SpikeProcessor::update_synaptic_weights
update_synaptic_weights(st, node1, node2, correlation) ==
    LET key == IF node1 < node2 THEN <<node1, node2>> ELSE <<node2, node1>>
        current_weight == IF key \in DOMAIN st.synaptic_weights
                          THEN st.synaptic_weights[key] ELSE Zero
        new_weight == F64Add(current_weight, F64Mul(LearningRate, correlation))
    IN  [st EXCEPT !.synaptic_weights =
            Put(@, key, F64Clamp(new_weight, RNeg(One), One))]

HourMs == 3600000

\* a mutant of the sweep: every refractory entry is dropped
apply_temporal_decayDropsAll(st, t, cfg) ==
    LET cutoff == t - HourMs
        Recent(spike) == spike.timestamp > cutoff
    IN  [st EXCEPT
          !.activations =
              [n \in DOMAIN st.activations |->
                  RMul(st.activations[n], cfg.decay_rate)],
          !.spike_history = SelectSeq(@, Recent),
          !.refractory_until = EmptyMap,
          !.processing_cycles = @ + 1,
          !.last_update = t]

\* SpikeProcessor::apply_temporal_decay
apply_temporal_decay(st, t, cfg) ==
    LET cutoff == t - HourMs
        Recent(spike) == spike.timestamp > cutoff
        live == {n \in DOMAIN st.refractory_until : st.refractory_until[n] > t}
    IN  [st EXCEPT
          !.activations =
              [n \in DOMAIN st.activations |->
                  RMul(st.activations[n], cfg.decay_rate)],
          !.spike_history = SelectSeq(@, Recent),
          !.refractory_until = [n \in live |-> st.refractory_until[n]],
          !.processing_cycles = @ + 1,
          !.last_update = t]

-----------------------------------------------------------------------------
(* The similarity and complementarity scores, src/src/neural.rs.           *)

\* a mutant of the lookup: a missing entry counts as 1
ActivationMissingIsOne(st, n) ==
    IF n \in DOMAIN st.activations THEN st.activations[n] ELSE One

\* state.activations.get(&n).unwrap_or(&0.0)
Activation(st, n) ==
    IF n \in DOMAIN st.activations THEN st.activations[n] ELSE Zero

TenMinutesMs == 600000

\* the spikes of node n after recent_cutoff
RecentSpikes(st, n, t) ==
    Cardinality({i \in DOMAIN st.spike_history :
                    /\ st.spike_history[i].node_id = n
                    /\ st.spike_history[i].timestamp > t - TenMinutesMs})

\* SpikeProcessor::calculate_temporal_similarity
calculate_temporal_similarity(st, node1, node2, t) ==
    LET node1_recent_spikes == RecentSpikes(st, node1, t)
        node2_recent_spikes == RecentSpikes(st, node2, t)
    IN  IF node1_recent_spikes = 0 /\ node2_recent_spikes = 0 THEN One
        ELSE IF node1_recent_spikes = 0 \/ node2_recent_spikes = 0 THEN Zero
        ELSE IF node1_recent_spikes < node2_recent_spikes
             THEN Rat(node1_recent_spikes, node2_recent_spikes)
             ELSE Rat(node2_recent_spikes, node1_recent_spikes)

\* a mutant of the score: the structural term is 1 as soon as the two
\* nodes share a neighbour
TotalSimilarityAnyShared(g, st, target_node, node_id, t) ==
    LET target_neighbors == get_neighbors(g, target_node)
        node_neighbors == get_neighbors(g, node_id)
        activation_similarity ==
            RSub(One, RAbs(RSub(Activation(st, target_node),
                                Activation(st, node_id))))
        structural_similarity ==
            IF target_neighbors \cap node_neighbors # {} THEN One ELSE Zero
        temporal_similarity ==
            calculate_temporal_similarity(st, target_node, node_id, t)
    IN  RAdd(RAdd(RMul(activation_similarity, <<2, 5>>),
                  RMul(structural_similarity, <<2, 5>>)),
             RMul(temporal_similarity, <<1, 5>>))

\* total_similarity of node_id in the loop of find_similar_nodes
TotalSimilarity(g, st, target_node, node_id, t) ==
    LET target_neighbors == get_neighbors(g, target_node)
        node_neighbors == get_neighbors(g, node_id)
        activation_similarity ==
            RSub(One, RAbs(RSub(Activation(st, target_node),
                                Activation(st, node_id))))
        shared_neighbors == Cardinality(target_neighbors \cap node_neighbors)
        max_neighbors ==
            IF Cardinality(target_neighbors) > Cardinality(node_neighbors)
            THEN Cardinality(target_neighbors)
            ELSE Cardinality(node_neighbors)
        structural_similarity ==
            IF max_neighbors > 0 THEN Rat(shared_neighbors, max_neighbors)
            ELSE Zero
        temporal_similarity ==
            calculate_temporal_similarity(st, target_node, node_id, t)
    IN  RAdd(RAdd(RMul(activation_similarity, <<2, 5>>),
                  RMul(structural_similarity, <<2, 5>>)),
             RMul(temporal_similarity, <<1, 5>>))

\* the orders in which a HashSet of ids can be iterated
Orderings(S) ==
    {s \in [1..Cardinality(S) -> S] : \A i, j \in DOMAIN s : s[i] = s[j] => i = j}

\* a mutant of the sort: the pairs stay in the order they were pushed
SortDescNever(pairs) == pairs

\* sort_by(|a, b| b.1.partial_cmp(&a.1)): a stable sort, highest score
\* first, pairs of equal score staying in the order they were pushed
RECURSIVE SortDesc(_)
SortDesc(pairs) ==
    IF pairs = <<>> THEN <<>>
    ELSE LET front == SortDesc(SubSeq(pairs, 1, Len(pairs) - 1))
             x == pairs[Len(pairs)]
             k == Cardinality({i \in DOMAIN front : RGe(front[i][2], x[2])})
         IN  SubSeq(front, 1, k) \o <<x>> \o SubSeq(front, k + 1, Len(front))

\* SpikeProcessor::find_similar_nodes: the results it can return, one for
\* each order in which graph.nodes() may be iterated
find_similar_nodes(g, st, target_node, threshold, t) ==
    LET others == DOMAIN g.nodes \ {target_node}
        total_similarity ==
            [n \in others |-> TotalSimilarity(g, st, target_node, n, t)]
        Scored(order) ==
            [i \in DOMAIN order |-> <<order[i], total_similarity[order[i]]>>]
        Passes(pair) == RGe(pair[2], threshold)
    IN  {SortDesc(SelectSeq(Scored(order), Passes)) :
            order \in Orderings(others)}

\* SpikeProcessor::calculate_complementarity
calculate_complementarity(g, st, node1, node2) ==
    IF node1 \notin DOMAIN g.nodes \/ node2 \notin DOMAIN g.nodes
    THEN [ok |-> FALSE, val |-> Zero]
    ELSE
    LET activation_complementarity ==
            RSub(One, RMin(RAbs(RSub(Activation(st, node1),
                                     Activation(st, node2))), One))
        neighbors1 == get_neighbors(g, node1)
        neighbors2 == get_neighbors(g, node2)
        shared_neighbors == Cardinality(neighbors1 \cap neighbors2)
        total_unique_neighbors ==
            Cardinality(neighbors1) + Cardinality(neighbors2)
                - shared_neighbors
        bridge_potential ==
            IF total_unique_neighbors > 0
            THEN RSub(One, Rat(shared_neighbors, total_unique_neighbors))
            ELSE Zero
    IN  [ok |-> TRUE,
         val |-> RAdd(RMul(activation_complementarity, <<3, 10>>),
                      RMul(bridge_potential, <<7, 10>>))]

\* the nodes stable_matching takes as active
ActiveNodes(st) ==
    {n \in DOMAIN st.activations : RGt(st.activations[n], <<1, 10>>)}

\* a mutant of the test on a pair: every pair of active nodes is kept
ComplementaryAlways(complementarity) == TRUE

\* the test that makes stable_matching push a pair
Complementary(complementarity) == RGt(complementarity, <<1, 2>>)

\* the two for loops of stable_matching from the pair (i, j) on, with
\* their breaks; a match is <<<<node1, node2>>, complementarity>>
RECURSIVE Matches(_, _, _, _, _, _, _)
Matches(g, st, active_nodes, i, j, max_results, matches) ==
    IF i > Len(active_nodes)
    THEN [ok |-> TRUE, pairs |-> matches]
    ELSE IF j > Len(active_nodes)
    THEN IF Len(matches) >= max_results
         THEN [ok |-> TRUE, pairs |-> matches]
         ELSE Matches(g, st, active_nodes, i + 1, i + 2, max_results, matches)
    ELSE LET node1 == active_nodes[i]
             node2 == active_nodes[j]
             complementarity == calculate_complementarity(g, st, node1, node2)
             pushed == IF Complementary(complementarity.val)
                       THEN Append(matches, <<<<node1, node2>>,
                                             complementarity.val>>)
                       ELSE matches
         IN  IF ~complementarity.ok
             THEN [ok |-> FALSE, pairs |-> <<>>]
             ELSE IF Len(pushed) >= max_results
             THEN [ok |-> TRUE, pairs |-> pushed]
             ELSE Matches(g, st, active_nodes, i, j + 1, max_results, pushed)

\* Vec::truncate
Truncate(seq, len) == SubSeq(seq, 1, IF len < Len(seq) THEN len ELSE Len(seq))

\* SpikeProcessor::stable_matching: the results it can return, one for
\* each order in which state.activations may be iterated
stable_matching(g, st, max_results) ==
    {LET m == Matches(g, st, active_nodes, 1, 2, max_results, <<>>)
     IN  [ok |-> m.ok, pairs |-> Truncate(SortDesc(m.pairs), max_results)] :
        active_nodes \in Orderings(ActiveNodes(st))}

-----------------------------------------------------------------------------
(* SpikeProcessor::simulate_cascade, src/src/neural.rs.  The call is run   *)
(* one turn of its while loop at a time; casc holds its locals.            *)

\* the minimum threshold of the push
MinPropagated == <<1, 100>>

\* the largest member of a non-empty set of f64
RMaxOf(S) == CHOOSE c \in S : \A d \in S : RLe(d, c)

\* max_conductance: the fold of f64::max, from 0.0, over the conductances
\* of the edges of current_node that list the neighbor
MaxConductance(g, current_node, neighbor) ==
    RMaxOf({Zero} \cup
           {g.edges[e].conductance :
              e \in {x \in get_node_edges(g, current_node) :
                        neighbor \in Range(g.edges[x].node_ids)}})

\* a mutant of propagated_activation: the per-hop decay is left out
PropagatedNoDecay(current_activation, max_conductance, cfg) ==
    RMul(current_activation, max_conductance)

\* propagated_activation
Propagated(current_activation, max_conductance, cfg) ==
    RMul(RMul(current_activation, max_conductance), cfg.decay_rate)

\* a mutant of the skip test: a node already visited is processed again
SkipPoppedDepthOnly(top, visited, cfg) ==
    top.depth >= cfg.max_cascade_depth

\* the test that makes the loop `continue` on a popped entry
SkipPopped(top, visited, cfg) ==
    top.depth >= cfg.max_cascade_depth \/ top.node \in visited

\* the entries the for loop pushes, for the neighbors taken in this order
RECURSIVE Pushes(_, _, _, _, _, _)
Pushes(g, top, visited, order, i, cfg) ==
    IF i > Len(order)
    THEN <<>>
    ELSE LET neighbor == order[i]
             rest == Pushes(g, top, visited, order, i + 1, cfg)
             \* `if propagated_activation > 0.01 { push }`
             pushed(p) ==
                 IF RGt(p, MinPropagated)
                 THEN <<[node |-> neighbor, strength |-> p,
                         depth |-> top.depth + 1]>> \o rest
                 ELSE rest
         IN  IF neighbor \in visited
             THEN rest
             \* the two lets of the code, each bound once:
             \* c is max_conductance, p is propagated_activation
             ELSE CHOOSE q \in
                    {pushed(p) :
                       p \in {Propagated(top.strength, c, cfg) :
                                c \in {MaxConductance(g, top.node, neighbor)}}}
                    : TRUE

\* a mutant of the final retain: the source stays in the result
RemoveSourceKeepsAll(effects, source_node) ==
    [i \in DOMAIN effects |-> <<effects[i].node, effects[i].strength>>]

\* cascade_effects.retain(|(id, _)| *id != source_node)
RemoveSource(effects, source_node) ==
    LET NotSource(x) == x.node # source_node
        kept == SelectSeq(effects, NotSource)
    IN  [i \in DOMAIN kept |-> <<kept[i].node, kept[i].strength>>]

-----------------------------------------------------------------------------
(* The coordinator, src/src/core.rs: client tasks, the two locks and the   *)
(* snapshot file.                                                          *)

MaxTasks == 2        \* concurrent client tasks
MaxDbOps == 3        \* coordinator calls per behaviour

Tasks == 1..MaxTasks

\* a tokio RwLock: its holders and its FIFO queue of waiting tasks
FreeLock == [writer |-> 0, readers |-> {}, queue |-> <<>>]

\* Database.graph's lock and SpikeProcessor.neural_state's lock
FreeLocks == [graph |-> FreeLock, neural |-> FreeLock]

\* no graph.bin in the data directory
NoSnapshot == [kind |-> "absent", g |-> NewGraph]

\* graph.bin holds bytes that bincode::deserialize rejects
Unreadable == [kind |-> "unreadable", g |-> NewGraph]

\* graph.bin holds the serialized store g
Snapshot(g) == [kind |-> "graph", g |-> g]

\* no query has returned yet
NoReply == [ok |-> TRUE, pairs |-> <<>>]

\* no write has returned yet: the writes that returned Ok, and those that
\* returned Err after their store mutation
NoAcks == [nodes |-> 0, edges |-> 0, unsaved_nodes |-> 0, unsaved_edges |-> 0]

\* a task that is running no call: the call's arguments, its position, the
\* bytes save_graph has serialized, and the steps it has taken so far
IdleTask ==
    [op |-> "idle", pc |-> 0, id |-> 0, node_ids |-> <<>>, val |-> Zero,
     ret |-> "none", buf |-> NewGraph, log |-> <<>>]

IdleTasks == [t \in Tasks |-> IdleTask]

Acq(l, m) == [k |-> "acquire", lock |-> l, mode |-> m]
Rel(l) == [k |-> "release", lock |-> l, mode |-> ""]
Do(w) == [k |-> "do", lock |-> w, mode |-> ""]

\* a mutant of add_node: the snapshot is taken inside process_new_node's
\* critical section, before the engine lock is dropped
AddNodeProgramSyncUnderHook ==
    <<Acq("graph", "w"), Do("add_node"), Rel("graph"),
      Acq("neural", "w"), Do("process_new_node"),
      Acq("graph", "r"), Do("serialize"), Do("replace_file"), Rel("graph"),
      Rel("neural")>>

\* a mutant of add_node: the engine hook runs before the store insert
AddNodeProgramHookFirst ==
    <<Acq("neural", "w"), Do("process_new_node"), Rel("neural"),
      Acq("graph", "w"), Do("add_node"), Rel("graph"),
      Acq("graph", "r"), Do("serialize"), Do("replace_file"), Rel("graph")>>

\* a mutant of add_node: the store guard is dropped between the
\* serialization and the file write of the save
AddNodeProgramSaveUnguarded ==
    <<Acq("graph", "w"), Do("add_node"), Rel("graph"),
      Acq("neural", "w"), Do("process_new_node"), Rel("neural"),
      Acq("graph", "r"), Do("serialize"), Rel("graph"), Do("replace_file")>>

\* Database::add_node: the lock acquisitions, calls and guard drops in
\* program order (sync_to_storage takes the store lock shared)
AddNodeProgram ==
    <<Acq("graph", "w"), Do("add_node"), Rel("graph"),
      Acq("neural", "w"), Do("process_new_node"), Rel("neural"),
      Acq("graph", "r"), Do("serialize"), Do("replace_file"), Rel("graph")>>

\* a mutant of connect_nodes: the store guard lives until the hook is over
ConnectNodesProgramHookUnderGuard ==
    <<Acq("graph", "w"), Do("add_hyperedge"),
      Acq("neural", "w"), Do("propagate_spike"), Rel("neural"), Rel("graph"),
      Acq("graph", "r"), Do("serialize"), Do("replace_file"), Rel("graph")>>

\* Database::connect_nodes
ConnectNodesProgram ==
    <<Acq("graph", "w"), Do("add_hyperedge"), Rel("graph"),
      Acq("neural", "w"), Do("propagate_spike"), Rel("neural"),
      Acq("graph", "r"), Do("serialize"), Do("replace_file"), Rel("graph")>>

\* Database::find_similar
FindSimilarProgram ==
    <<Acq("graph", "r"), Acq("neural", "r"), Do("find_similar_nodes"),
      Rel("neural"), Rel("graph")>>

\* Database::discover_relationships
DiscoverProgram ==
    <<Acq("graph", "r"), Acq("neural", "r"), Do("stable_matching"),
      Rel("neural"), Rel("graph")>>

\* Database::simulate_network_effect
SimulateProgram ==
    <<Acq("graph", "r"), Do("simulate_cascade"), Rel("graph")>>

\* Database::stats
StatsProgram ==
    <<Acq("graph", "r"), Acq("neural", "r"), Do("stats"),
      Rel("neural"), Rel("graph")>>

Program(op) ==
    CASE op = "add_node" -> AddNodeProgram
      [] op = "connect_nodes" -> ConnectNodesProgram
      [] op = "find_similar" -> FindSimilarProgram
      [] op = "discover_relationships" -> DiscoverProgram
      [] op = "simulate_network_effect" -> SimulateProgram
      [] op = "stats" -> StatsProgram

\* RwLock: the tasks holding the lock
Holders(lk) == lk.readers \cup (IF lk.writer = 0 THEN {} ELSE {lk.writer})

\* RwLock: the tasks queued on the lock
Waiters(lk) == {lk.queue[i][1] : i \in DOMAIN lk.queue}

\* a mutant of the lock: a writer is let in while readers hold the lock
CanGrantOverReaders(lk) ==
    /\ lk.queue # <<>>
    /\ lk.writer = 0

\* RwLock: the request at the head of the queue can be granted
CanGrant(lk) ==
    /\ lk.queue # <<>>
    /\ lk.writer = 0
    /\ lk.queue[1][2] = "w" => lk.readers = {}

\* RwLock: grant the head of the queue
Granted(lk) ==
    LET t == lk.queue[1][1] IN
    IF lk.queue[1][2] = "w"
    THEN [lk EXCEPT !.writer = t, !.queue = Tail(@)]
    ELSE [lk EXCEPT !.readers = @ \cup {t}, !.queue = Tail(@)]

\* RwLock: the guard of task t is dropped
Dropped(lk, t) ==
    [lk EXCEPT !.writer = IF @ = t THEN 0 ELSE @, !.readers = @ \ {t}]

\* every guard of task t is dropped (an early return through `?`)
DropAll(lks, t) ==
    [graph |-> Dropped(lks.graph, t), neural |-> Dropped(lks.neural, t)]

\* Database::add_node run by one client alone, every save succeeding; the
\* id stands for the one Uuid::new_v4 draws
Database_add_node(g, st, t) ==
    LET node_id == node_count(g) + 1
    IN  [id |-> node_id, ok |-> TRUE,
         g |-> add_node(g, node_id, t).g,
         st |-> process_new_node(st, node_id)]

\* a mutant of connect_nodes: the spike has intensity 1.0, not strength
Database_connect_nodesUnitSpike(g, st, node_ids, strength, t, cfg) ==
    LET edge_id == edge_count(g) + 1
        r == add_hyperedge(g, edge_id, node_ids, strength, t)
    IN  [id |-> edge_id, ok |-> r.ok, g |-> r.g,
         st |-> IF r.ok
                THEN propagate_spike(st, node_ids, One, t, cfg)
                ELSE st]

\* Database::connect_nodes run by one client alone, every save succeeding
Database_connect_nodes(g, st, node_ids, strength, t, cfg) ==
    LET edge_id == edge_count(g) + 1
        r == add_hyperedge(g, edge_id, node_ids, strength, t)
    IN  [id |-> edge_id, ok |-> r.ok, g |-> r.g,
         st |-> IF r.ok
                THEN propagate_spike(st, node_ids, strength, t, cfg)
                ELSE st]

\* Database::stats, the two counts of the store and the engine's spikes
Database_stats(g, st) ==
    [node_count |-> node_count(g), edge_count |-> edge_count(g),
     total_spikes |-> st.total_spikes]

-----------------------------------------------------------------------------
(* Arguments the callers pass.                                             *)

Strengths == {<<4, 5>>}
Conductances == {<<1, 2>>}
Levels == {<<1, 2>>, <<7, 10>>, <<4, 5>>}
Rates == {<<9, 10>>}
ParticipantLists == SeqsUpTo(NodeIds, MaxLen)

NoOp == [op |-> "none", id |-> 0, node_ids |-> <<>>, val |-> Zero, ok |-> TRUE]

Call(op, id, node_ids, val, ok) ==
    [op |-> op, id |-> id, node_ids |-> node_ids, val |-> val, ok |-> ok]

\* no simulate_cascade call is running
IdleCascade ==
    [pc |-> "idle", source |-> 0, strength |-> Zero, queue |-> <<>>,
     visited |-> {}, effects |-> <<>>, result |-> <<>>]

-----------------------------------------------------------------------------
(* Spec: the store driven directly through its public operations.          *)

Init ==
    /\ graph = NewGraph
    /\ neural_state = NewNeuralState
    /\ config = DefaultConfig
    /\ now = 0
    /\ last_op = NoOp
    /\ ops = 0
    /\ decays = 0
    /\ casc = IdleCascade
    /\ tasks = IdleTasks
    /\ locks = FreeLocks
    /\ disk = NoSnapshot
    /\ acked = NoAcks
    /\ reply = NoReply

\* one more call of the store, while the budget lasts
Count ==
    /\ ops < MaxOps
    /\ ops' = ops + 1

Tick ==
    /\ Count
    /\ now' = now + TickMs
    /\ UNCHANGED <<graph, neural_state, config, last_op, decays, casc, dbvars>>

AddNode(id) ==
    LET r == add_node(graph, id, now) IN
    /\ Count
    /\ graph' = r.g
    /\ last_op' = Call("add_node", id, <<>>, Zero, r.ok)
    /\ UNCHANGED <<neural_state, config, now, decays, casc, dbvars>>

AddHyperedge(id, node_ids, strength) ==
    LET r == add_hyperedge(graph, id, node_ids, strength, now) IN
    /\ Count
    /\ graph' = r.g
    /\ last_op' = Call("add_hyperedge", id, node_ids, strength, r.ok)
    /\ UNCHANGED <<neural_state, config, now, decays, casc, dbvars>>

UpdateNodeActivation(id, a) ==
    LET r == update_node_activation(graph, id, a, now) IN
    /\ Count
    /\ graph' = r.g
    /\ last_op' = Call("update_node_activation", id, <<>>, a, r.ok)
    /\ UNCHANGED <<neural_state, config, now, decays, casc, dbvars>>

UpdateEdgeConductance(id, c) ==
    LET r == update_edge_conductance(graph, id, c, now) IN
    /\ Count
    /\ graph' = r.g
    /\ last_op' = Call("update_edge_conductance", id, <<>>, c, r.ok)
    /\ UNCHANGED <<neural_state, config, now, decays, casc, dbvars>>

ApplyDecay(rate) ==
    /\ Count
    /\ decays < MaxDecays
    /\ decays' = decays + 1
    /\ graph' = apply_decay(graph, rate)
    /\ last_op' = Call("apply_decay", 0, <<>>, rate, TRUE)
    /\ UNCHANGED <<neural_state, config, now, casc, dbvars>>

Next ==
    \/ Tick
    \/ \E id \in NodeIds : AddNode(id)
    \/ \E id \in EdgeIds, ns \in ParticipantLists, s \in Strengths :
         AddHyperedge(id, ns, s)
    \/ \E id \in NodeIds, a \in Levels : UpdateNodeActivation(id, a)
    \/ \E id \in EdgeIds, c \in Conductances : UpdateEdgeConductance(id, c)
    \/ \E r \in Rates : ApplyDecay(r)

Spec == Init /\ [][Next]_vars

-----------------------------------------------------------------------------
(* Properties of the store, checked under Spec.                            *)

\* C1: the two adjacency indices agree: every participant n of an edge e
\* has e in node_to_edges[n], and every e in node_to_edges[n] has n among
\* edge_to_nodes[e].
C1_IndicesAgree ==
    /\ \A e \in DOMAIN graph.edge_to_nodes :
         \A n \in Range(graph.edge_to_nodes[e]) :
            n \in DOMAIN graph.node_to_edges /\ e \in graph.node_to_edges[n]
    /\ \A n \in DOMAIN graph.node_to_edges :
         \A e \in graph.node_to_edges[n] :
            e \in DOMAIN graph.edge_to_nodes
                /\ n \in Range(graph.edge_to_nodes[e])

\* C2: add_hyperedge with a participant that is not a node returns an error
\* and leaves the whole store as it was.
C2_UnknownNodeFailsAtomically ==
    [][(last_op'.op = "add_hyperedge"
          /\ \E i \in DOMAIN last_op'.node_ids :
                last_op'.node_ids[i] \notin DOMAIN graph.nodes)
        => (~last_op'.ok /\ graph' = graph)]_vars

\* C2 witness: a rejected call whose first participant exists and whose
\* second does not.
C2_Witness ==
    /\ last_op.op = "add_hyperedge"
    /\ ~last_op.ok
    /\ Len(last_op.node_ids) = 2
    /\ last_op.node_ids[1] \in DOMAIN graph.nodes
    /\ last_op.node_ids[2] \notin DOMAIN graph.nodes
    /\ graph.node_to_edges[last_op.node_ids[1]] = {}
    /\ edge_count(graph) = 0

\* C3: add_node with an id that is already a node, and add_hyperedge with
\* an id that is already an edge, fail and leave the store as it was.
C3_DuplicateIdRejected ==
    [][/\ (last_op'.op = "add_node" /\ last_op'.id \in DOMAIN graph.nodes)
            => (~last_op'.ok /\ graph' = graph)
       /\ (last_op'.op = "add_hyperedge" /\ last_op'.id \in DOMAIN graph.edges)
            => (~last_op'.ok /\ graph' = graph)]_vars

\* C4: every stored hyperedge has at least one participant.
C4_EdgesNonEmpty ==
    \A e \in DOMAIN graph.edges :
        /\ Len(graph.edges[e].node_ids) >= 1
        /\ Len(graph.edge_to_nodes[e]) >= 1

\* C5: every id in edge_to_nodes[e], and in the edge's node_ids, is a key
\* of nodes.
C5_ParticipantsExist ==
    /\ \A e \in DOMAIN graph.edge_to_nodes :
         Range(graph.edge_to_nodes[e]) \subseteq DOMAIN graph.nodes
    /\ \A e \in DOMAIN graph.edges :
         Range(graph.edges[e].node_ids) \subseteq DOMAIN graph.nodes

\* C5 witness: add_hyperedge has stored an edge between two different
\* nodes.
C5_Witness ==
    /\ last_op.op = "add_hyperedge"
    /\ last_op.ok
    /\ last_op.id \in DOMAIN graph.edges
    /\ Cardinality(Range(graph.edge_to_nodes[last_op.id])) = 2

\* the product of two numbers given as fractions, in lowest terms
Times(x, y) ==
    LET n == x[1] * y[1]
        d == x[2] * y[2]
        k == CHOOSE c \in 1..d : /\ n % c = 0 /\ d % c = 0
                                 /\ \A b \in (c + 1)..d :
                                       n % b # 0 \/ d % b # 0
    IN  <<n \div k, d \div k>>

\* C26: apply_decay(r) multiplies the activation_level of every node by r
\* and the conductance of every edge by the weight_decay of that edge, and
\* changes nothing else: the nodes, the edges, both indices and every
\* other field, spike_count and last_spike_time among them, stay as they
\* were. An activation 0.8 becomes 0.72 under apply_decay(0.9).
C26_DecayScales ==
    [][(last_op'.op = "apply_decay" /\ decays' = decays + 1) =>
        LET r == last_op'.val IN
        /\ DOMAIN graph'.nodes = DOMAIN graph.nodes
        /\ DOMAIN graph'.edges = DOMAIN graph.edges
        /\ graph'.node_to_edges = graph.node_to_edges
        /\ graph'.edge_to_nodes = graph.edge_to_nodes
        /\ \A n \in DOMAIN graph.nodes :
              /\ graph'.nodes[n] =
                    [graph.nodes[n] EXCEPT
                        !.activation_level = Times(@, r)]
              /\ (graph.nodes[n].activation_level = <<4, 5>>
                     /\ r = <<9, 10>>)
                    => graph'.nodes[n].activation_level = <<18, 25>>
        /\ \A e \in DOMAIN graph.edges :
              graph'.edges[e] =
                  [graph.edges[e] EXCEPT
                      !.conductance = Times(@, graph.edges[e].weight_decay)]
       ]_vars

\* apply_decay(0.9) has turned the activation 0.8 of a node that spiked
\* once into 0.72 and the conductance 0.8 of an edge into 0.792.
C26_Witness ==
    /\ last_op.op = "apply_decay"
    /\ last_op.val = <<9, 10>>
    /\ \E n \in DOMAIN graph.nodes :
          /\ graph.nodes[n].activation_level = <<18, 25>>
          /\ graph.nodes[n].spike_count = 1
    /\ \E e \in DOMAIN graph.edges :
          graph.edges[e].conductance = <<99, 125>>


\* the nodes other than n that are participants of an edge n is a
\* participant of
SharingAnEdge(n) ==
    {m \in DOMAIN graph.nodes \ {n} :
        \E e \in DOMAIN graph.edges :
            {n, m} \subseteq Range(graph.edges[e].node_ids)}

\* C29: get_neighbors(id) is exactly the set of nodes that share at least
\* one hyperedge with id, without id itself; a node whose only edges have
\* one participant has no neighbours.
C29_NeighborsShareAnEdge ==
    \A n \in DOMAIN graph.nodes :
        /\ get_neighbors(graph, n) = SharingAnEdge(n)
        /\ n \notin get_neighbors(graph, n)
        /\ (\A e \in DOMAIN graph.edges :
                n \in Range(graph.edges[e].node_ids)
                    => Range(graph.edges[e].node_ids) = {n})
           => get_neighbors(graph, n) = {}

\* C30: update_node_activation(id, a) on an existing node sets
\* activation_level to a and, if and only if a > 0.7, sets last_spike_time
\* and adds exactly 1 to spike_count; on an unknown id it returns an error
\* and changes nothing; no store operation decreases the spike_count of a
\* node.
C30_SpikesCounted ==
    [][/\ (last_op'.op = "update_node_activation" /\ ops' = ops + 1
           /\ now' = now) =>
              LET id == last_op'.id
                  a == last_op'.val
              IN  IF id \in DOMAIN graph.nodes
                  THEN /\ last_op'.ok
                       /\ graph'.nodes[id].activation_level = a
                       /\ IF RLt(<<7, 10>>, a)
                          THEN /\ graph'.nodes[id].last_spike_time = now
                               /\ graph'.nodes[id].spike_count =
                                      graph.nodes[id].spike_count + 1
                          ELSE /\ graph'.nodes[id].last_spike_time =
                                      graph.nodes[id].last_spike_time
                               /\ graph'.nodes[id].spike_count =
                                      graph.nodes[id].spike_count
                  ELSE ~last_op'.ok /\ graph' = graph
       /\ \A n \in DOMAIN graph.nodes :
              /\ n \in DOMAIN graph'.nodes
              /\ graph'.nodes[n].spike_count >= graph.nodes[n].spike_count
      ]_vars

-----------------------------------------------------------------------------
(* SpecEngine: the neural engine driven directly through its operations,   *)
(* under any of the configurations.                                        *)

Configs == {DefaultConfig, CustomConfig, ZeroRefractoryConfig}
Intensities == {<<1, 2>>, <<9, 10>>}
SourceLists == SeqsUpTo(NodeIds, MaxLen)

InitEngine ==
    /\ graph = NewGraph
    /\ neural_state = NewNeuralState
    /\ config \in Configs
    /\ now = 0
    /\ last_op = NoOp
    /\ ops = 0
    /\ decays = 0
    /\ casc = IdleCascade
    /\ tasks = IdleTasks
    /\ locks = FreeLocks
    /\ disk = NoSnapshot
    /\ acked = NoAcks
    /\ reply = NoReply

\* one more call of the engine, while the budget lasts
CountEngine ==
    /\ ops < MaxEngineOps
    /\ ops' = ops + 1

EngineTick ==
    /\ now < MaxTicks * TickMs
    /\ now' = now + TickMs
    /\ UNCHANGED <<graph, neural_state, config, last_op, ops, decays, casc, dbvars>>

ProcessNewNode(id) ==
    /\ CountEngine
    /\ neural_state' = process_new_node(neural_state, id)
    /\ last_op' = Call("process_new_node", id, <<>>, Zero, TRUE)
    /\ UNCHANGED <<graph, config, now, decays, casc, dbvars>>

PropagateSpike(sources, intensity) ==
    /\ CountEngine
    /\ neural_state' =
         propagate_spike(neural_state, sources, intensity, now, config)
    /\ last_op' = Call("propagate_spike", 0, sources, intensity, TRUE)
    /\ UNCHANGED <<graph, config, now, decays, casc, dbvars>>

ApplyTemporalDecay ==
    /\ CountEngine
    /\ decays < MaxDecays
    /\ decays' = decays + 1
    /\ neural_state' = apply_temporal_decay(neural_state, now, config)
    /\ last_op' = Call("apply_temporal_decay", 0, <<>>, Zero, TRUE)
    /\ UNCHANGED <<graph, config, now, casc, dbvars>>

NextEngine ==
    \/ EngineTick
    \/ \E id \in NodeIds : ProcessNewNode(id)
    \/ \E ss \in SourceLists, x \in Intensities : PropagateSpike(ss, x)
    \/ ApplyTemporalDecay

SpecEngine == InitEngine /\ [][NextEngine]_vars

\* the sources of a propagate_spike call that are refractory when it runs
Blocked(st, sources, t) ==
    {x \in Range(sources) :
        x \in DOMAIN st.refractory_until /\ t < st.refractory_until[x]}

\* C6: propagate_spike leaves the activation and the refractory entry of
\* every source whose refractory_until is still in the future as they were,
\* and when every source is such a node it leaves activations,
\* refractory_until, spike_history and total_spikes unchanged.
C6_RefractorySuppression ==
    [][last_op'.op = "propagate_spike" =>
        LET held == Blocked(neural_state, last_op'.node_ids, now) IN
        /\ \A x \in held :
             /\ x \in DOMAIN neural_state.activations
             /\ neural_state'.activations[x] = neural_state.activations[x]
             /\ neural_state'.refractory_until[x]
                    = neural_state.refractory_until[x]
        /\ Range(last_op'.node_ids) \subseteq held =>
             /\ neural_state'.activations = neural_state.activations
             /\ neural_state'.refractory_until
                    = neural_state.refractory_until
             /\ neural_state'.spike_history = neural_state.spike_history
             /\ neural_state'.total_spikes = neural_state.total_spikes]_vars

\* C6 witness: a second propagate_spike on a node, with another intensity
\* and inside its refractory period, has returned: one spike is counted
\* and the activation is the first call's.
C6_Witness ==
    /\ last_op.op = "propagate_spike"
    /\ Len(last_op.node_ids) = 1
    /\ LET x == last_op.node_ids[1] IN
        /\ x \in DOMAIN neural_state.refractory_until
        /\ now < neural_state.refractory_until[x]
        /\ neural_state.activations[x] # last_op.val
        /\ neural_state.total_spikes = 1
        /\ Len(neural_state.spike_history) = 1

\* C39: within one propagate_spike call a node that occurs several times in
\* sources is spiked at most once, whatever the refractory period, 0
\* included: total_spikes grows by the number of distinct sources that are
\* not refractory, and one event per such node is appended.
C39_DuplicateSourceSpikedOnce ==
    [][(last_op'.op = "propagate_spike" /\ ops' = ops + 1) =>
        LET spiked == Range(last_op'.node_ids)
                          \ Blocked(neural_state, last_op'.node_ids, now)
            old == neural_state.spike_history
            new == neural_state'.spike_history
        IN  /\ neural_state'.total_spikes
                   = neural_state.total_spikes + Cardinality(spiked)
            /\ Len(new) = Len(old) + Cardinality(spiked)
            /\ \A n \in spiked :
                   Cardinality({k \in (Len(old) + 1)..Len(new) :
                                   new[k].node_id = n}) = 1]_vars

-----------------------------------------------------------------------------
(* SpecCascade: one simulate_cascade call on a store built with add_node   *)
(* and add_hyperedge, under any of the configurations.                     *)

ChainNodes == 5      \* the chain of test_network_effect_simulation

\* a DatabaseConfig whose cascade stops after two levels
ShallowConfig == [DefaultConfig EXCEPT !.max_cascade_depth = 2]

\* the constants of analyze_network_effects, whose loop is the loop of
\* simulate_cascade with 0.9 for the decay rate and its max_depth argument
\* for the depth limit
AnalyzerConfig ==
    [DefaultConfig EXCEPT !.decay_rate = <<9, 10>>, !.max_cascade_depth = 3]

CascadeConfigs == {DefaultConfig, CustomConfig, ShallowConfig, AnalyzerConfig}
CascadeStrengths == {Zero, <<4, 5>>}
InitialStrengths == {One, <<3, 5>>, <<1, 50>>, <<3, 200>>}

\* add_node for the ids 1..n
RECURSIVE WithNodes(_, _)
WithNodes(g, n) ==
    IF n = 0 THEN g ELSE add_node(WithNodes(g, n - 1), n, 0).g

\* add_hyperedge for edge_lists[1..k], edge i getting the id i
RECURSIVE WithEdges(_, _, _, _)
WithEdges(g, edge_lists, k, strengths) ==
    IF k = 0
    THEN g
    ELSE add_hyperedge(WithEdges(g, edge_lists, k - 1, strengths),
                       k, edge_lists[k], strengths[k], 0).g

\* the store after n add_node calls and one add_hyperedge call per list
Built(n, edge_lists, strengths) ==
    WithEdges(WithNodes(NewGraph, n), edge_lists, Len(edge_lists), strengths)

\* the chain 1 - 2 - ... - n of 2-node edges
ChainEdges(n) == [i \in 1..(n - 1) |-> <<i, i + 1>>]

\* the shapes the call is run on: chains, a triangle of 2-node edges, one
\* 3-node hyperedge, a node with a self-loop beside a free node, an edge
\* that repeats a participant, a cycle of four, a triangle with a tail
Shapes ==
    {<<n, ChainEdges(n)>> : n \in 1..ChainNodes}
        \cup {<<3, <<<<1, 2>>, <<1, 3>>, <<2, 3>>>>>>,
              <<3, <<<<1, 2, 3>>>>>>,
              <<2, <<<<1>>>>>>,
              <<2, <<<<1, 1, 2>>>>>>,
              <<4, <<<<1, 2>>, <<2, 3>>, <<3, 4>>, <<4, 1>>>>>>,
              <<4, <<<<1, 2>>, <<1, 3>>, <<2, 3>>, <<3, 4>>>>>>}

\* the shapes built with a conductance above 1: a triangle, a self-loop
\* beside a free node, an edge that repeats a participant
LoopShapes ==
    {<<3, <<<<1, 2>>, <<1, 3>>, <<2, 3>>>>>>,
     <<2, <<<<1>>>>>>,
     <<2, <<<<1, 1, 2>>>>>>}

\* the same strength on every edge of the shape
Uniform(sh, s) == [k \in DOMAIN sh[2] |-> s]

\* two edges of different strength between the same two nodes
DoubleEdge == <<<<1, 2>>, <<2, 1>>>>

CascadeGraphs ==
    {Built(sh[1], sh[2], Uniform(sh, s)) : sh \in Shapes, s \in CascadeStrengths}
        \cup {Built(2, DoubleEdge, <<<<2, 5>>, <<4, 5>>>>),
              Built(2, DoubleEdge, <<<<4, 5>>, <<2, 5>>>>)}
        \cup {Built(sh[1], sh[2], Uniform(sh, <<2, 1>>)) : sh \in LoopShapes}

InitCascade ==
    /\ graph \in CascadeGraphs
    /\ neural_state = NewNeuralState
    /\ config \in CascadeConfigs
    /\ now = 0
    /\ last_op = NoOp
    /\ ops = 0
    /\ decays = 0
    /\ casc = IdleCascade
    /\ tasks = IdleTasks
    /\ locks = FreeLocks
    /\ disk = NoSnapshot
    /\ acked = NoAcks
    /\ reply = NoReply

\* the call: the locals before the first turn of the loop
CascadeStart(source_node, activation_strength) ==
    /\ casc.pc = "idle"
    /\ casc' = [pc |-> "loop", source |-> source_node,
                strength |-> activation_strength,
                queue |-> <<[node |-> source_node,
                             strength |-> activation_strength,
                             depth |-> 0]>>,
                visited |-> {}, effects |-> <<>>, result |-> <<>>]
    /\ UNCHANGED <<graph, neural_state, config, now, last_op, ops, decays, dbvars>>

\* one turn of the while loop: pop, skip or visit, push the neighbors
CascadeStep ==
    /\ casc.pc = "loop"
    /\ casc.queue # <<>>
    /\ LET top == casc.queue[Len(casc.queue)]
           rest == SubSeq(casc.queue, 1, Len(casc.queue) - 1)
       IN  IF SkipPopped(top, casc.visited, config)
           THEN casc' = [casc EXCEPT !.queue = rest]
           ELSE \E order \in Orderings(get_neighbors(graph, top.node)) :
                  LET seen == casc.visited \cup {top.node} IN
                  casc' = [casc EXCEPT
                            !.visited = seen,
                            !.effects = Append(@, top),
                            !.queue = rest \o
                                Pushes(graph, top, seen, order, 1, config)]
    /\ UNCHANGED <<graph, neural_state, config, now, last_op, ops, decays, dbvars>>

\* the queue is empty: the source is removed and the call returns
CascadeFinish ==
    /\ casc.pc = "loop"
    /\ casc.queue = <<>>
    /\ casc' = [casc EXCEPT
                 !.pc = "done",
                 !.result = RemoveSource(casc.effects, casc.source)]
    /\ UNCHANGED <<graph, neural_state, config, now, last_op, ops, decays, dbvars>>

\* the ids a caller may pass: every node of the store and one id that is
\* not in it
CascadeSources == DOMAIN graph.nodes \cup {0}

NextCascade ==
    \/ \E src \in CascadeSources, a \in InitialStrengths : CascadeStart(src, a)
    \/ CascadeStep
    \/ CascadeFinish

SpecCascade == InitCascade /\ [][NextCascade]_vars

\* the chain of test_network_effect_simulation: five nodes, four 2-node
\* edges of strength 0.8
TestChain == Built(ChainNodes, ChainEdges(ChainNodes), [k \in 1..4 |-> <<4, 5>>])

\* C7: simulate_cascade emits each node at most once, and every emitted
\* node was reached at a depth of at most max_cascade_depth - 1.
C7_EmittedOnceWithinDepth ==
    /\ \A i, j \in DOMAIN casc.effects :
         casc.effects[i].node = casc.effects[j].node => i = j
    /\ \A i \in DOMAIN casc.effects :
         casc.effects[i].depth <= config.max_cascade_depth - 1
    /\ \A i, j \in DOMAIN casc.result :
         casc.result[i][1] = casc.result[j][1] => i = j

\* C7 witness: a call on a cyclic store has returned after the loop popped
\* an entry deeper than the limit allows; every node was emitted, the
\* deepest at max_cascade_depth - 1.
C7_Witness ==
    /\ casc.pc = "done"
    /\ config.max_cascade_depth = 2
    /\ Cardinality(DOMAIN graph.nodes) = 3
    /\ \A n \in DOMAIN graph.nodes : Cardinality(get_neighbors(graph, n)) = 2
    /\ Len(casc.effects) = 3
    /\ \E i \in DOMAIN casc.effects : casc.effects[i].depth = 1

\* C8: the result never contains the source, and it is empty when the
\* source has no neighbours.
C8_ResultExcludesSource ==
    casc.pc = "done" =>
        /\ \A i \in DOMAIN casc.result : casc.result[i][1] # casc.source
        /\ get_neighbors(graph, casc.source) = {} => casc.result = <<>>

\* C8 witness: a call whose source is a node of the store without any
\* connection has returned the empty result.
C8_Witness ==
    /\ casc.pc = "done"
    /\ casc.source \in DOMAIN graph.nodes
    /\ graph.node_to_edges[casc.source] = {}
    /\ casc.visited = {casc.source}
    /\ casc.result = <<>>

\* C9: on the chain of five nodes and four edges of strength 0.8, with the
\* default configuration, the cascade from the first node at 1.0 returns
\* exactly the other four nodes, each with its predecessor's strength times
\* 0.8 times 0.99.
C9_ChainCascade ==
    (/\ casc.pc = "done"
     /\ graph = TestChain
     /\ config = DefaultConfig
     /\ casc.source = 1
     /\ casc.strength = One)
    => /\ Len(casc.result) = 4
       /\ \A i \in 1..4 :
            /\ casc.result[i][1] = i + 1
            /\ casc.result[i][2] =
                 RMul(RMul(IF i = 1 THEN One ELSE casc.result[i - 1][2],
                           <<4, 5>>), <<99, 100>>)

\* C9 witness: that call has returned, the last node at 0.8^4 * 0.99^4.
C9_Witness ==
    /\ casc.pc = "done"
    /\ graph = TestChain
    /\ config = DefaultConfig
    /\ casc.source = 1
    /\ casc.strength = One
    /\ casc.result[4] = <<5, <<96059601, 244140625>>>>

\* the paths without a repeated node that start with the path p, have
\* fewer than max_cascade_depth hops, and along which the propagated
\* strength stays above 0.01; p is the nodes in order and the strength at
\* the last of them
RECURSIVE StrongPaths(_, _, _)
StrongPaths(g, cfg, p) ==
    LET last == p.nodes[Len(p.nodes)]
        Next1(m) == [nodes |-> Append(p.nodes, m),
                     strength |-> Propagated(p.strength,
                                             MaxConductance(g, last, m), cfg)]
        further == {Next1(m) : m \in get_neighbors(g, last) \ Range(p.nodes)}
    IN  {p} \cup
        UNION {StrongPaths(g, cfg, q) :
                  q \in {r \in further :
                            /\ Len(p.nodes) < cfg.max_cascade_depth
                            /\ RGt(r.strength, MinPropagated)}}

\* C37: when simulate_cascade has returned, every node reachable from the
\* source by a path of fewer than max_cascade_depth hops along which the
\* propagated strength stays above 0.01 is in the result, whatever the
\* order in which the neighbours were iterated.
C37_CascadeComplete ==
    casc.pc = "done" =>
        \A p \in StrongPaths(graph, config,
                             [nodes |-> <<casc.source>>,
                              strength |-> casc.strength]) :
            LET n == p.nodes[Len(p.nodes)] IN
            \/ n = casc.source
            \/ \E i \in DOMAIN casc.result : casc.result[i][1] = n

\* the loop of simulate_cascade runs on: a turn that can be taken is taken,
\* and the call returns once the stack is empty
FairSpecCascade ==
    SpecCascade /\ WF_vars(CascadeStep) /\ WF_vars(CascadeFinish)

\* C38: simulate_cascade, and the same loop run with the constants of
\* analyze_network_effects, terminates on every finite store, with cycles,
\* self-loop edges and conductances above 1: no node is expanded twice,
\* and a call that has entered its loop returns.
C38_CascadeTerminates ==
    /\ [](\A i, j \in DOMAIN casc.effects :
             casc.effects[i].node = casc.effects[j].node => i = j)
    /\ (casc.pc = "loop") ~> (casc.pc = "done")

\* C38 witness: a call on the triangle whose edges have conductance 2 has
\* returned: both other nodes are in the result, one with a strength that
\* grew over two hops beyond the initial one.
C38_Witness ==
    /\ casc.pc = "done"
    /\ node_count(graph) = 3
    /\ edge_count(graph) = 3
    /\ \A e \in DOMAIN graph.edges : graph.edges[e].conductance = <<2, 1>>
    /\ Len(casc.result) = 2
    /\ \E i \in DOMAIN casc.result :
          RLt(RMul(casc.strength, <<3, 1>>), casc.result[i][2])

-----------------------------------------------------------------------------
(* SpecDb: client tasks calling the coordinator concurrently.  A task      *)
(* takes one step of its call at a time; waiting for a lock, and holding   *)
(* it across a suspension point, are states of their own.                  *)

ReadOps == {"find_similar", "discover_relationships",
            "simulate_network_effect", "stats"}

WriteOps == {"add_node", "connect_nodes"}

\* what the data directory may hold when the coordinator is opened
Snapshots == {NoSnapshot, Unreadable}

\* StorageEngine::load_graph
load_graph(d) ==
    IF d.kind = "absent" THEN [ok |-> TRUE, g |-> NewGraph]
    ELSE IF d.kind = "unreadable" THEN [ok |-> FALSE, g |-> NewGraph]
    ELSE [ok |-> TRUE, g |-> d.g]

\* Database::load_from_storage: an Err of load_graph is dropped by the
\* `if let Ok`, and Ok(()) is returned either way
load_from_storage(g, d) ==
    [ok |-> TRUE, g |-> IF load_graph(d).ok THEN load_graph(d).g ELSE g]

\* Database::new has returned
InitDb ==
    /\ disk \in Snapshots
    /\ graph = load_from_storage(NewGraph, disk).g
    /\ neural_state = NewNeuralState
    /\ config = DefaultConfig
    /\ now = 0
    /\ last_op = Call("new", 0, <<>>, Zero,
                      load_from_storage(NewGraph, disk).ok)
    /\ ops = 0
    /\ decays = 0
    /\ casc = IdleCascade
    /\ tasks = IdleTasks
    /\ locks = FreeLocks
    /\ acked = NoAcks
    /\ reply = NoReply

\* the ids Uuid::new_v4 has handed to calls that are still running
InFlight(op) == {tasks[t].id : t \in {u \in Tasks : tasks[u].op = op}}

\* Uuid::new_v4: an id no node has (the least such, ids being symmetric)
FreshNode ==
    LET free == NodeIds \ (DOMAIN graph.nodes \cup InFlight("add_node")) IN
    IF free = {} THEN 0 ELSE CHOOSE i \in free : \A j \in free : i <= j

\* Uuid::new_v4: an id no edge has
FreshEdge ==
    LET free == EdgeIds \ (DOMAIN graph.edges \cup InFlight("connect_nodes"))
    IN  IF free = {} THEN 0 ELSE CHOOSE i \in free : \A j \in free : i <= j

\* a client task calls a method of Database (the tasks being
\* interchangeable, the idle task of least number takes the call)
Start(t, op, id, node_ids, val) ==
    /\ tasks[t].op = "idle"
    /\ \A u \in Tasks : tasks[u].op = "idle" => t <= u
    /\ ops < MaxDbOps
    /\ id # 0
    /\ ops' = ops + 1
    /\ tasks' = [tasks EXCEPT ![t] =
                  [IdleTask EXCEPT !.op = op, !.pc = 1, !.id = id,
                                   !.node_ids = node_ids, !.val = val]]
    /\ UNCHANGED <<graph, neural_state, config, now, last_op, decays, casc,
                   locks, disk, acked, reply>>

\* the step of its program task t is at
At(t) == Program(tasks[t].op)[tasks[t].pc]

Running(t) ==
    /\ tasks[t].op # "idle"
    /\ tasks[t].pc <= Len(Program(tasks[t].op))

\* lock.read().await / lock.write().await: the task joins the queue
Request(t) ==
    /\ Running(t)
    /\ At(t).k = "acquire"
    /\ t \notin Waiters(locks[At(t).lock])
    /\ locks' = [locks EXCEPT ![At(t).lock].queue =
                   Append(@, <<t, At(t).mode>>)]
    /\ UNCHANGED <<graph, neural_state, config, now, last_op, ops, decays,
                   casc, tasks, disk, acked, reply>>

\* the task goes on to its next step, the one it took being logged
Proceed(t) ==
    tasks' = [tasks EXCEPT ![t].pc = @ + 1,
                           ![t].log =
                               Append(@, <<At(t).k, At(t).lock, At(t).mode>>)]

\* `?` on an Err: every guard is dropped and the call returns the error
Bail(t) ==
    /\ tasks' = [tasks EXCEPT ![t].pc = Len(Program(tasks[t].op)) + 1,
                              ![t].ret = "Err",
                              ![t].log = Append(@, <<"err", At(t).lock, "">>)]
    /\ locks' = DropAll(locks, t)

\* the lock is handed to the task at the head of its queue
Grant(t) ==
    /\ Running(t)
    /\ At(t).k = "acquire"
    /\ LET lk == locks[At(t).lock] IN
        /\ CanGrant(lk)
        /\ lk.queue[1][1] = t
        /\ locks' = [locks EXCEPT ![At(t).lock] = Granted(lk)]
    /\ Proceed(t)
    /\ UNCHANGED <<graph, neural_state, config, now, last_op, ops, decays,
                   casc, disk, acked, reply>>

\* a guard goes out of scope
Release(t) ==
    /\ Running(t)
    /\ At(t).k = "release"
    /\ locks' = [locks EXCEPT ![At(t).lock] = Dropped(@, t)]
    /\ Proceed(t)
    /\ UNCHANGED <<graph, neural_state, config, now, last_op, ops, decays,
                   casc, disk, acked, reply>>

\* graph.add_node under the exclusive store lock
DoAddNode(t) ==
    /\ Running(t) /\ At(t).k = "do" /\ At(t).lock = "add_node"
    /\ graph' = add_node(graph, tasks[t].id, now).g
    /\ Proceed(t)
    /\ UNCHANGED <<neural_state, config, now, last_op, ops, decays, casc,
                   locks, disk, acked, reply>>

\* graph.add_hyperedge under the exclusive store lock
DoAddHyperedge(t) ==
    /\ Running(t) /\ At(t).k = "do" /\ At(t).lock = "add_hyperedge"
    /\ LET r == add_hyperedge(graph, tasks[t].id, tasks[t].node_ids,
                              tasks[t].val, now)
       IN  /\ graph' = r.g
           /\ IF r.ok THEN Proceed(t) /\ locks' = locks ELSE Bail(t)
    /\ UNCHANGED <<neural_state, config, now, last_op, ops, decays, casc,
                   disk, acked, reply>>

\* neural.process_new_node under the exclusive engine lock
DoProcessNewNode(t) ==
    /\ Running(t) /\ At(t).k = "do" /\ At(t).lock = "process_new_node"
    /\ neural_state' = process_new_node(neural_state, tasks[t].id)
    /\ Proceed(t)
    /\ UNCHANGED <<graph, config, now, last_op, ops, decays, casc, locks,
                   disk, acked, reply>>

\* neural.propagate_spike under the exclusive engine lock
DoPropagateSpike(t) ==
    /\ Running(t) /\ At(t).k = "do" /\ At(t).lock = "propagate_spike"
    /\ neural_state' = propagate_spike(neural_state, tasks[t].node_ids,
                                       tasks[t].val, now, config)
    /\ Proceed(t)
    /\ UNCHANGED <<graph, config, now, last_op, ops, decays, casc, locks,
                   disk, acked, reply>>

\* storage.save_graph, up to its first suspension point: bincode::serialize
\* copies the store the guard refers to into a buffer, or fails
DoSerialize(t) ==
    /\ Running(t) /\ At(t).k = "do" /\ At(t).lock = "serialize"
    /\ \/ /\ tasks' = [tasks EXCEPT ![t].pc = @ + 1, ![t].buf = graph,
                          ![t].log = Append(@, <<"do", "serialize", "">>)]
          /\ locks' = locks
       \/ Bail(t)
    /\ UNCHANGED <<graph, neural_state, config, now, last_op, ops, decays,
                   casc, disk, acked, reply>>

\* a mutant of the save: a failed file step is taken for a success
DoReplaceFileSwallowed(t) ==
    /\ Running(t) /\ At(t).k = "do" /\ At(t).lock = "replace_file"
    /\ \/ disk' = Snapshot(tasks[t].buf) /\ Proceed(t) /\ locks' = locks
       \/ disk' = disk /\ Proceed(t) /\ locks' = locks
    /\ UNCHANGED <<graph, neural_state, config, now, last_op, ops, decays,
                   casc, acked, reply>>

\* storage.save_graph, the file I/O: the buffer is written to graph.tmp,
\* which is renamed over graph.bin, or a step fails and graph.bin stays
DoReplaceFile(t) ==
    /\ Running(t) /\ At(t).k = "do" /\ At(t).lock = "replace_file"
    /\ \/ disk' = Snapshot(tasks[t].buf) /\ Proceed(t) /\ locks' = locks
       \/ disk' = disk /\ Bail(t)
    /\ UNCHANGED <<graph, neural_state, config, now, last_op, ops, decays,
                   casc, acked, reply>>

\* a mutant of the reads: the routine runs a decay sweep over the store
DoReadSweeping(t) ==
    /\ Running(t) /\ At(t).k = "do"
    /\ At(t).lock \in {"find_similar_nodes", "stable_matching",
                       "simulate_cascade", "stats"}
    /\ graph' = apply_decay(graph, config.decay_rate)
    /\ Proceed(t)
    /\ UNCHANGED <<neural_state, config, now, last_op, ops, decays, casc,
                   locks, disk, acked, reply>>

\* the engine's read-only routines and the cascade: no state is written
DoRead(t) ==
    /\ Running(t) /\ At(t).k = "do"
    /\ At(t).lock \in {"find_similar_nodes", "stable_matching",
                       "simulate_cascade", "stats"}
    /\ Proceed(t)
    /\ UNCHANGED <<graph, neural_state, config, now, last_op, ops, decays,
                   casc, locks, disk, acked, reply>>

\* the writes that have returned, one more when task t returns from one
Acked(a, t) ==
    LET ok == tasks[t].ret # "Err"
        node == tasks[t].op = "add_node"
        edge == tasks[t].op = "connect_nodes"
                    /\ \E i \in DOMAIN tasks[t].log :
                          tasks[t].log[i] = <<"do", "add_hyperedge", "">>
        One1(b) == IF b THEN 1 ELSE 0
    IN  [nodes |-> a.nodes + One1(node /\ ok),
         edges |-> a.edges + One1(edge /\ ok),
         unsaved_nodes |-> a.unsaved_nodes + One1(node /\ ~ok),
         unsaved_edges |-> a.unsaved_edges + One1(edge /\ ~ok)]

\* the call returns to the client
Return(t) ==
    /\ tasks[t].op # "idle"
    /\ tasks[t].pc > Len(Program(tasks[t].op))
    /\ last_op' = Call(tasks[t].op, tasks[t].id, tasks[t].node_ids,
                       tasks[t].val, tasks[t].ret # "Err")
    /\ acked' = Acked(acked, t)
    /\ tasks' = [tasks EXCEPT ![t] = IdleTask]
    /\ UNCHANGED <<graph, neural_state, config, now, ops, decays, casc,
                   locks, disk, reply>>

\* a step of a call that is running
DbStep(t) ==
    \/ Request(t)
    \/ Grant(t)
    \/ Release(t)
    \/ DoAddNode(t)
    \/ DoAddHyperedge(t)
    \/ DoProcessNewNode(t)
    \/ DoPropagateSpike(t)
    \/ DoSerialize(t)
    \/ DoReplaceFile(t)
    \/ DoRead(t)
    \/ Return(t)

NextDb ==
    \/ \E t \in Tasks : Start(t, "add_node", FreshNode, <<>>, Zero)
    \/ \E t \in Tasks, ns \in ParticipantLists, s \in Strengths :
         Start(t, "connect_nodes", FreshEdge, ns, s)
    \/ \E t \in Tasks, op \in ReadOps : Start(t, op, 1, <<>>, Zero)
    \/ \E t \in Tasks : DbStep(t)

SpecDb == InitDb /\ [][NextDb]_vars

\* C10: no task requests (or waits for) the store lock while it holds the
\* engine lock, and no deadlock is reachable: while some call is running,
\* some running call can take a step.
C10_StoreBeforeEngine ==
    /\ \A t \in Tasks :
         t \in Holders(locks.neural) =>
            /\ t \notin Waiters(locks.graph)
            /\ ~(Running(t) /\ At(t).k = "acquire" /\ At(t).lock = "graph")
    /\ (\E t \in Tasks : tasks[t].op # "idle")
            => ENABLED (\E t \in Tasks : DbStep(t))

\* C10 witness: one task holds the engine lock exclusively while another,
\* holding the store lock shared, waits in the engine lock's queue.
C10_Witness ==
    \E t, u \in Tasks :
        /\ t # u
        /\ locks.neural.writer = t
        /\ u \in locks.graph.readers
        /\ u \in Waiters(locks.neural)

\* the two adjacency indices of store g agree with its edges
IndicesAgreeIn(g) ==
    /\ \A e \in DOMAIN g.edge_to_nodes : \A n \in Range(g.edge_to_nodes[e]) :
         n \in DOMAIN g.node_to_edges /\ e \in g.node_to_edges[n]
    /\ \A n \in DOMAIN g.node_to_edges : \A e \in g.node_to_edges[n] :
         e \in DOMAIN g.edge_to_nodes /\ n \in Range(g.edge_to_nodes[e])

\* task t is inside save_graph, between bincode::serialize and the rename
Saving(t) == Running(t) /\ At(t) = Do("replace_file")

\* C11: while a save is between its start and its end the store does not
\* change, so the bytes it serialized are the store as it is, and a
\* snapshot that replaces the file is that store and satisfies the index
\* invariants.
C11_SnapshotPointInTime ==
    [][\A t \in Tasks : Saving(t) =>
         /\ graph' = graph
         /\ tasks[t].buf = graph
         /\ disk' # disk =>
                disk' = Snapshot(graph) /\ IndicesAgreeIn(disk'.g)]_vars

\* C11 witness: a snapshot with a node is on disk, and a task is inside a
\* save while a writer waits for the store lock.
C11_Witness ==
    /\ disk.kind = "graph"
    /\ disk.g.nodes # EmptyMap
    /\ \E t, u \in Tasks :
         /\ Saving(t)
         /\ t \in locks.graph.readers
         /\ locks.graph.queue # <<>>
         /\ locks.graph.queue[1] = <<u, "w">>

\* the place of the first entry e in log l, 0 when there is none
Pos(l, e) ==
    IF \E i \in DOMAIN l : l[i] = e
    THEN CHOOSE i \in DOMAIN l : l[i] = e /\ \A j \in 1..(i - 1) : l[j] # e
    ELSE 0

\* the call of task t is over and has not failed
Succeeded(t) ==
    /\ tasks[t].op # "idle"
    /\ ~Running(t)
    /\ tasks[t].ret # "Err"

\* C12: a coordinator write mutates the store right after taking the store
\* lock exclusively, drops that lock, then calls the engine hook, then
\* saves; a write that succeeds has saved, and a write whose store
\* mutation failed has called no hook and saved nothing.
C12_WriteStepOrder ==
    \A t \in Tasks : tasks[t].op \in WriteOps =>
        LET l == tasks[t].log
            mut == IF tasks[t].op = "add_node"
                   THEN "add_node" ELSE "add_hyperedge"
            hook == IF tasks[t].op = "add_node"
                    THEN "process_new_node" ELSE "propagate_spike"
            x == Pos(l, <<"acquire", "graph", "w">>)
            m == Pos(l, <<"do", mut, "">>)
            r == Pos(l, <<"release", "graph", "">>)
            h == Pos(l, <<"do", hook, "">>)
            sv == Pos(l, <<"do", "serialize", "">>)
            f == Pos(l, <<"do", "replace_file", "">>)
        IN  /\ m # 0 => x # 0 /\ m = x + 1
            /\ r # 0 => m # 0 /\ m < r
            /\ h # 0 => r # 0 /\ r < h
            /\ sv # 0 => h # 0 /\ h < sv
            /\ f # 0 => sv # 0 /\ sv < f
            /\ Succeeded(t) => f # 0
            /\ Pos(l, <<"err", mut, "">>) # 0 => h = 0 /\ sv = 0 /\ f = 0

\* C12 witness: one connect_nodes call is over after its save, beside one
\* whose add_hyperedge was rejected.
C12_Witness ==
    \E t, u \in Tasks :
        /\ tasks[t].op = "connect_nodes"
        /\ Succeeded(t)
        /\ Pos(tasks[t].log, <<"do", "replace_file", "">>) = 9
        /\ tasks[u].op = "connect_nodes"
        /\ tasks[u].log = <<<<"acquire", "graph", "w">>,
                            <<"err", "add_hyperedge", "">>>>

\* the step is one in which the save of task t fails: the task leaves
\* save_graph without the store in its buffer, or without its buffer in
\* the file
SaveFails(t) ==
    /\ Running(t)
    /\ tasks'[t].pc # tasks[t].pc
    /\ \/ At(t) = Do("serialize") /\ tasks'[t].buf # graph
       \/ At(t) = Do("replace_file") /\ disk' # Snapshot(tasks[t].buf)

\* C13: when the save of a write fails, the call ends with the error, the
\* store and the neural state keep what the write had already done, and
\* the client is handed the error.
C13_SaveFailureSurfaces ==
    [][\A t \in Tasks :
         /\ (tasks[t].op \in WriteOps /\ SaveFails(t)) =>
              /\ tasks'[t].ret = "Err"
              /\ ~Running(t)'
              /\ graph' = graph
              /\ neural_state' = neural_state
              /\ tasks[t].op = "add_node" =>
                    /\ tasks[t].id \in DOMAIN graph'.nodes
                    /\ tasks[t].id \in DOMAIN neural_state'.activations
              /\ tasks[t].op = "connect_nodes" =>
                    /\ tasks[t].id \in DOMAIN graph'.edges
                    /\ graph'.edges[tasks[t].id].node_ids = tasks[t].node_ids
         /\ (tasks[t].ret = "Err" /\ tasks'[t].op = "idle") =>
              /\ ~last_op'.ok
              /\ acked'.nodes = acked.nodes
              /\ acked'.edges = acked.edges]_vars

\* C13 witness: an add_node call whose save failed has ended with the
\* error; its node is in the store and in the engine, not in the file.
C13_Witness ==
    \E t \in Tasks :
        /\ tasks[t].op = "add_node"
        /\ tasks[t].ret = "Err"
        /\ Pos(tasks[t].log, <<"err", "replace_file", "">>) # 0
        /\ tasks[t].id \in DOMAIN graph.nodes
        /\ tasks[t].id \in DOMAIN neural_state.activations
        /\ disk.kind # "graph"

\* C14: a coordinator opened on an unreadable snapshot starts with an
\* empty store and signals the failure (Database::new does not report
\* success); while the failure has not been signalled, no save replaces
\* the unreadable file.
C14_UnreadableSnapshotSignalled ==
    [][(disk.kind = "unreadable" /\ load_from_storage(NewGraph, disk).ok)
          => disk'.kind = "unreadable"]_vars

\* C15: no step of a read operation changes the store, and the store does
\* not change while a read holds it: nodes, edges and both indices are the
\* same when the call ends as when it took the store lock.
C15_ReadsLeaveStore ==
    [][\A t \in Tasks : tasks[t].op \in ReadOps =>
         /\ tasks'[t] # tasks[t] => graph' = graph
         /\ t \in locks.graph.readers => graph' = graph]_vars

\* C15 witness: a cascade has run, under the shared store lock, over a
\* store that has an edge, while a writer waits for the lock.
C15_Witness ==
    \E t \in Tasks :
        /\ tasks[t].op = "simulate_network_effect"
        /\ Pos(tasks[t].log, <<"do", "simulate_cascade", "">>) # 0
        /\ t \in locks.graph.readers
        /\ graph.edges # EmptyMap
        /\ locks.graph.queue # <<>>

\* C16: a simulate_network_effect call that crosses edges strengthens the
\* path: once it has returned a non-empty result, some edge of the store
\* has a conductance above the strength it was created with.
C16_TraversalStrengthens ==
    (casc.pc = "done" /\ casc.result # <<>>) =>
        \E e \in DOMAIN graph.edges :
            RGt(graph.edges[e].conductance, graph.edges[e].strength)

\* no write call is running
NoWriteRunning == \A t \in Tasks : tasks[t].op \notin WriteOps

\* C17 as stated: whenever no write is running, stats reports as many
\* nodes as add_node calls have returned Ok and as many edges as
\* connect_nodes calls have returned Ok, whatever calls have failed.
C17_CountsMatchOkWrites ==
    NoWriteRunning =>
        /\ Database_stats(graph, neural_state).node_count = acked.nodes
        /\ Database_stats(graph, neural_state).edge_count = acked.edges

\* C17 amended: stats reports the sizes of the primary maps; they are 0 and
\* 0 on a directory without a readable snapshot, and whenever no write is
\* running they count the writes whose store mutation was applied: those
\* that returned Ok and those that returned Err from the save.
C17_CountsMatchAppliedWrites ==
    LET s == Database_stats(graph, neural_state) IN
    /\ s.node_count = Cardinality(DOMAIN graph.nodes)
    /\ s.edge_count = Cardinality(DOMAIN graph.edges)
    /\ ops = 0 => s.node_count = 0 /\ s.edge_count = 0
    /\ NoWriteRunning =>
        /\ s.node_count = acked.nodes + acked.unsaved_nodes
        /\ s.edge_count = acked.edges + acked.unsaved_edges

\* C17 witness: every call has returned; one add_node and one
\* connect_nodes returned Ok, one add_node failed in its save, and the
\* store has two nodes and one edge.
C17_Witness ==
    /\ \A t \in Tasks : tasks[t].op = "idle"
    /\ acked = [nodes |-> 1, edges |-> 1,
                unsaved_nodes |-> 1, unsaved_edges |-> 0]
    /\ Database_stats(graph, neural_state).node_count = 2
    /\ Database_stats(graph, neural_state).edge_count = 1

\* the node ids the engine holds state for
EngineNodes ==
    DOMAIN neural_state.activations
        \cup DOMAIN neural_state.refractory_until
        \cup {neural_state.spike_history[k].node_id :
                 k \in DOMAIN neural_state.spike_history}

\* C35: under any interleaving of concurrent coordinator calls, every node
\* id that is a key of activations or refractory_until, or occurs in
\* spike_history, is a node of the store; so discover_relationships, at
\* whatever moment it reads the two, does not fail on a missing node.
C35_EngineNodesAreStoreNodes ==
    /\ EngineNodes \subseteq DOMAIN graph.nodes
    /\ \A r \in stable_matching(graph, neural_state, MaxNodes) : r.ok

\* C35 witness: connect_nodes has spiked nodes 1 and 2 while the add_node
\* call that inserted 2 has not yet run its engine hook: both nodes are
\* active, both are in the store, and the pair is scored.
C35_Witness ==
    /\ \E t \in Tasks :
          /\ tasks[t].op = "add_node"
          /\ tasks[t].id = 2
          /\ Running(t)
          /\ At(t) \in {Acq("neural", "w"), Do("process_new_node")}
    /\ ActiveNodes(neural_state) = {1, 2}
    /\ {1, 2} \subseteq DOMAIN graph.nodes
    /\ \E r \in stable_matching(graph, neural_state, MaxNodes) :
          r.ok /\ Len(r.pairs) > 0

\* C36: no write is lost from the snapshot through saves that finish out
\* of order: a save about to replace the file holds the store as it is
\* now, and once every call has returned, all saves having succeeded, the
\* snapshot last written equals the store in memory.
C36_LastSaveIsCurrent ==
    /\ \A t \in Tasks :
          (Running(t) /\ At(t) = Do("replace_file")) => tasks[t].buf = graph
    /\ (/\ \A t \in Tasks : tasks[t].op = "idle"
        /\ acked.unsaved_nodes = 0
        /\ acked.unsaved_edges = 0
        /\ acked.nodes + acked.edges > 0)
       => disk = Snapshot(graph)

\* C36 witness: two writes save at the same time, both holding the store
\* lock shared: one has replaced the file, the other has serialized and not
\* yet written, and both snapshots are the store with its two nodes.
C36_Witness ==
    \E t, u \in Tasks :
        /\ t # u
        /\ {t, u} \subseteq locks.graph.readers
        /\ Running(t) /\ At(t) = Rel("graph")
        /\ Running(u) /\ At(u) = Do("replace_file")
        /\ tasks[t].op \in WriteOps /\ tasks[u].op \in WriteOps
        /\ disk = Snapshot(graph)
        /\ tasks[u].buf = graph
        /\ node_count(graph) = 2

-----------------------------------------------------------------------------
(* SpecWeights: the Hebbian update of the engine, called with any pair of  *)
(* nodes and any f64 correlation.                                          *)

MaxWeightOps == 3    \* update_synaptic_weights calls per behaviour

\* correlation arguments: small, large enough to saturate in one call,
\* infinite, and not a number
Correlations == {One, RNeg(One), <<150, 1>>, <<-150, 1>>, Inf, NaN}

InitWeights ==
    /\ graph = NewGraph
    /\ neural_state = NewNeuralState
    /\ config = DefaultConfig
    /\ now = 0
    /\ last_op = NoOp
    /\ ops = 0
    /\ decays = 0
    /\ casc = IdleCascade
    /\ tasks = IdleTasks
    /\ locks = FreeLocks
    /\ disk = NoSnapshot
    /\ acked = NoAcks
    /\ reply = NoReply

UpdateSynapticWeights(node1, node2, correlation) ==
    /\ ops < MaxWeightOps
    /\ ops' = ops + 1
    /\ neural_state' =
         update_synaptic_weights(neural_state, node1, node2, correlation)
    /\ last_op' = Call("update_synaptic_weights", node1, <<node2>>,
                       correlation, TRUE)
    /\ UNCHANGED <<graph, config, now, decays, casc, dbvars>>

NextWeights ==
    \E node1, node2 \in NodeIds, c \in Correlations :
        UpdateSynapticWeights(node1, node2, c)

SpecWeights == InitWeights /\ [][NextWeights]_vars

\* C20: after every update_synaptic_weights call, whatever the
\* correlation, every stored synaptic weight is a number in [-1, 1].
C20_WeightsClamped ==
    [][last_op'.op = "update_synaptic_weights" =>
        \A k \in DOMAIN neural_state'.synaptic_weights :
            LET w == neural_state'.synaptic_weights[k] IN
            /\ IsFinite(w)
            /\ RLe(RNeg(One), w)
            /\ RLe(w, One)]_vars

\* the unordered pair {a, b} as the key (min(a, b), max(a, b))
Canonical(a, b) == <<IF a <= b THEN a ELSE b, IF a <= b THEN b ELSE a>>

\* C32: update_synaptic_weights(a, b, c) and update_synaptic_weights(b, a,
\* c) modify the same single entry, keyed (min(a, b), max(a, b)): every
\* other entry is as before, the entry's new value depends on its old
\* value and c only, and no key (x, y) with x > y is stored.
C32_KeyCanonical ==
    [][last_op'.op = "update_synaptic_weights" =>
        LET key == Canonical(last_op'.id, last_op'.node_ids[1])
            old == neural_state.synaptic_weights
            new == neural_state'.synaptic_weights
            before == IF key \in DOMAIN old THEN old[key] ELSE Zero
        IN  /\ DOMAIN new = DOMAIN old \cup {key}
            /\ \A k \in DOMAIN old : k # key => new[k] = old[k]
            /\ new[key] = F64Clamp(F64Add(before,
                                          F64Mul(<<1, 100>>, last_op'.val)),
                                   <<-1, 1>>, One)
            /\ \A k \in DOMAIN new : k[1] <= k[2]]_vars

\* C32 witness: update(1, 2, 1.0) and update(2, 1, 1.0) have both run and
\* the one entry (1, 2) holds 0.02.
C32_Witness ==
    /\ last_op.op = "update_synaptic_weights"
    /\ last_op.id = 2
    /\ last_op.node_ids = <<1>>
    /\ ops = 2
    /\ DOMAIN neural_state.synaptic_weights = {<<1, 2>>}
    /\ neural_state.synaptic_weights[<<1, 2>>] = <<1, 50>>

-----------------------------------------------------------------------------
(* SpecQuery: one client calling the coordinator's operations one after    *)
(* the other: add_node, connect_nodes with any strength, find_similar      *)
(* with any threshold. Every save succeeds.                                *)

MaxQueryNodes == 3   \* add_node calls per behaviour
MaxQueryEdges == 2   \* successful connect_nodes calls per behaviour
MaxQueryOps == 5     \* add_node and connect_nodes calls per behaviour
MaxQueryTicks == 1   \* clock steps of ten minutes per behaviour

QueryIds == 1..MaxQueryNodes
\* the ids find_similar is called with: 0 is the id of no node
QueryTargets == 0..MaxQueryNodes
\* the participant lists connect_nodes is called with: one id, or two
\* different ids in increasing order
QueryLists ==
    {l \in SeqsUpTo(QueryIds, MaxLen) :
        l # <<>> /\ \A i, j \in DOMAIN l : i < j => l[i] < l[j]}
QueryStrengths == {<<7, 10>>, <<3, 1>>}
Thresholds == {<<-1, 1>>, Zero, <<3, 10>>}

InitQuery ==
    /\ graph = NewGraph
    /\ neural_state = NewNeuralState
    /\ config = DefaultConfig
    /\ now = 0
    /\ last_op = NoOp
    /\ ops = 0
    /\ decays = 0
    /\ casc = IdleCascade
    /\ tasks = IdleTasks
    /\ locks = FreeLocks
    /\ disk = NoSnapshot
    /\ acked = NoAcks
    /\ reply = NoReply

\* the clock moves on by ten minutes
QueryTick ==
    /\ now < MaxQueryTicks * TenMinutesMs
    /\ now' = now + TenMinutesMs
    /\ UNCHANGED <<graph, neural_state, config, last_op, ops, decays, casc,
                   dbvars>>

\* Database::add_node, with the id Uuid::new_v4 draws
QueryAddNode ==
    /\ ops < MaxQueryOps
    /\ node_count(graph) < MaxQueryNodes
    /\ ops' = ops + 1
    /\ LET r == Database_add_node(graph, neural_state, now) IN
       /\ graph' = r.g
       /\ neural_state' = r.st
       /\ disk' = Snapshot(graph')
       /\ last_op' = Call("add_node", r.id, <<>>, Zero, TRUE)
    /\ reply' = NoReply
    /\ UNCHANGED <<config, now, decays, casc, tasks, locks, acked>>

\* Database::connect_nodes, with the id Uuid::new_v4 draws
QueryConnectNodes(node_ids, strength) ==
    /\ ops < MaxQueryOps
    /\ edge_count(graph) < MaxQueryEdges
    /\ ops' = ops + 1
    /\ LET r == Database_connect_nodes(graph, neural_state, node_ids,
                                       strength, now, config)
       IN  /\ graph' = r.g
           /\ neural_state' = r.st
           /\ disk' = IF r.ok THEN Snapshot(graph') ELSE disk
           /\ last_op' = Call("connect_nodes", r.id, node_ids, strength,
                              r.ok)
    /\ reply' = NoReply
    /\ UNCHANGED <<config, now, decays, casc, tasks, locks, acked>>

\* Database::find_similar
QueryFindSimilar(node_id, threshold) ==
    /\ \E r \in find_similar_nodes(graph, neural_state, node_id, threshold,
                                   now) :
          reply' = [ok |-> TRUE, pairs |-> r]
    /\ last_op' = Call("find_similar", node_id, <<>>, threshold, TRUE)
    /\ UNCHANGED <<graph, neural_state, config, now, ops, decays, casc,
                   tasks, locks, disk, acked>>

NextQuery ==
    \/ QueryTick
    \/ QueryAddNode
    \/ \E ids \in QueryLists, x \in QueryStrengths :
          QueryConnectNodes(ids, x)
    \/ \E id \in QueryTargets, th \in Thresholds : QueryFindSimilar(id, th)

SpecQuery == InitQuery /\ [][NextQuery]_vars

\* the nodes find_similar(target, threshold) has to return at time t
Similar(target, threshold, t) ==
    {n \in DOMAIN graph.nodes \ {target} :
        RGe(TotalSimilarity(graph, neural_state, target, n, t), threshold)}

\* C18: the pairs find_similar(target, threshold) returns are sorted in
\* non-increasing order of score, the target is not among them, no node
\* comes twice, and the nodes are exactly those whose score is at or
\* above the threshold, each with its score.
C18_FindSimilarResult ==
    [][(last_op'.op = "find_similar" /\ now' = now) =>
        LET pairs == reply'.pairs
            target == last_op'.id
        IN  /\ \A i, j \in DOMAIN pairs :
                  i < j => RGe(pairs[i][2], pairs[j][2])
            /\ \A i \in DOMAIN pairs : pairs[i][1] # target
            /\ \A i, j \in DOMAIN pairs : pairs[i][1] = pairs[j][1] => i = j
            /\ {pairs[i][1] : i \in DOMAIN pairs}
                  = Similar(target, last_op'.val, now)
            /\ \A i \in DOMAIN pairs :
                  pairs[i][2] = TotalSimilarity(graph, neural_state, target,
                                                pairs[i][1], now)]_vars

\* find_similar returned two nodes of different scores and left out a
\* third node of the store, whose score is below the threshold.
C18_Witness ==
    /\ last_op.op = "find_similar"
    /\ Len(reply.pairs) = 2
    /\ RGt(reply.pairs[1][2], reply.pairs[2][2])
    /\ node_count(graph) = 3
    /\ last_op.id \notin DOMAIN graph.nodes

\* C19: every score find_similar returns, and the complementarity score
\* of every two nodes of the store, lies in [0, 1].
C19_ScoresInUnitInterval ==
    /\ last_op.op = "find_similar" =>
          \A i \in DOMAIN reply.pairs :
              RLe(Zero, reply.pairs[i][2]) /\ RLe(reply.pairs[i][2], One)
    /\ \A a, b \in DOMAIN graph.nodes :
          LET c == calculate_complementarity(graph, neural_state, a, b) IN
          c.ok /\ RLe(Zero, c.val) /\ RLe(c.val, One)

\* the only edge of t and the only edge of s is one edge of strength 0.7
\* that links the two
FreshlyLinked(t, s) ==
    /\ t # s
    /\ t \in DOMAIN graph.nodes
    /\ s \in DOMAIN graph.nodes
    /\ \E e \in DOMAIN graph.edges :
          /\ Range(graph.edges[e].node_ids) = {t, s}
          /\ Len(graph.edges[e].node_ids) = 2
          /\ graph.edges[e].strength = <<7, 10>>
          /\ \A d \in DOMAIN graph.edges \ {e} :
                Range(graph.edges[d].node_ids) \cap {t, s} = {}

\* C24: after connect_nodes([t, s], _, 0.7) on two freshly added nodes,
\* find_similar(t, 0.3) returns a non-empty list that contains s,
\* whatever other nodes, not connected to them, are in the store.
C24_LinkedNodeIsSimilar ==
    [][(last_op'.op = "find_similar" /\ last_op'.val = <<3, 10>>) =>
          \A s \in DOMAIN graph.nodes :
              FreshlyLinked(last_op'.id, s) =>
                  \E i \in DOMAIN reply'.pairs : reply'.pairs[i][1] = s]_vars

\* find_similar(t, 0.3) returned s, linked to t by an edge of strength
\* 0.7, in a store with a third node that has an edge of its own.
C24_Witness ==
    /\ last_op.op = "find_similar"
    /\ last_op.val = <<3, 10>>
    /\ node_count(graph) = 3
    /\ edge_count(graph) = 2
    /\ \E s \in DOMAIN graph.nodes :
          /\ FreshlyLinked(last_op.id, s)
          /\ \E i \in DOMAIN reply.pairs : reply.pairs[i][1] = s

\* the score of node n against a target that has activation 0, no
\* neighbour and no spike
ScoreAgainstNothing(n) ==
    LET level == IF n \in DOMAIN neural_state.activations
                 THEN neural_state.activations[n] ELSE Zero
        silent == RecentSpikes(neural_state, n, now) = 0
    IN  RAdd(RMul(<<2, 5>>, RSub(One, RAbs(level))),
             IF silent THEN <<1, 5>> ELSE Zero)

\* C25: find_similar called with an id that is not in the store succeeds
\* and changes no state; the missing target counts as a node of
\* activation 0 without neighbours or spikes, so the result holds exactly
\* the nodes whose score against such a node reaches the threshold.
C25_UnknownTargetSucceeds ==
    [][(/\ last_op'.op = "find_similar"
        /\ now' = now
        /\ last_op'.id \notin DOMAIN graph.nodes) =>
          /\ reply'.ok
          /\ last_op'.ok
          /\ graph' = graph
          /\ neural_state' = neural_state
          /\ disk' = disk
          /\ {reply'.pairs[i][1] : i \in DOMAIN reply'.pairs}
                = {n \in DOMAIN graph.nodes :
                      RGe(ScoreAgainstNothing(n), last_op'.val)}
          /\ \A i \in DOMAIN reply'.pairs :
                reply'.pairs[i][2] = ScoreAgainstNothing(reply'.pairs[i][1])
       ]_vars

\* find_similar was called with an id that is in no store, and returned
\* a node that has never spiked.
C25_Witness ==
    /\ last_op.op = "find_similar"
    /\ last_op.id \notin DOMAIN graph.nodes
    /\ last_op.ok
    /\ \E i \in DOMAIN reply.pairs :
          /\ reply.pairs[i][2] = <<3, 5>>
          /\ Activation(neural_state, reply.pairs[i][1]) = Zero

-----------------------------------------------------------------------------
(* SpecDiscover: one client calling add_node, connect_nodes and            *)
(* discover_relationships one after the other, from an empty store or      *)
(* from the store of the structural similarity scenario.                   *)

EmptyWorld == [g |-> NewGraph, st |-> NewNeuralState, t |-> 0]

\* the world after one more add_node
Added(w) ==
    LET r == Database_add_node(w.g, w.st, w.t)
    IN  [g |-> r.g, st |-> r.st, t |-> w.t]

\* the world after connect_nodes called gap milliseconds later
Connected(w, node_ids, strength, gap) ==
    LET r == Database_connect_nodes(w.g, w.st, node_ids, strength, w.t + gap,
                                    DefaultConfig)
    IN  [g |-> r.g, st |-> r.st, t |-> w.t + gap]

\* nodes X, Y, Z = 1, 2, 3 and the edges {X,Y}, {X,Z}, {Y,Z} of strength
\* 0.5, the three connect_nodes calls gap1 and gap2 milliseconds apart
Triangle(gap1, gap2) ==
    Connected(Connected(Connected(Added(Added(Added(EmptyWorld))),
                                  <<1, 2>>, <<1, 2>>, 0),
                        <<1, 3>>, <<1, 2>>, gap1),
              <<2, 3>>, <<1, 2>>, gap2)

\* the time between two calls: within the refractory period, or past it
Gaps == {0, 2 * TickMs}
Triangles == {Triangle(gap1, gap2) : gap1, gap2 \in Gaps}
DiscoverWorlds == {EmptyWorld} \cup Triangles
DiscoverStrengths == {<<7, 10>>, <<4, 5>>}
MaxResults == {0, 1, 5}

InitDiscover ==
    /\ \E w \in DiscoverWorlds :
          /\ graph = w.g
          /\ neural_state = w.st
          /\ now = w.t
          /\ ops = node_count(w.g) + edge_count(w.g)
          /\ disk = IF w = EmptyWorld THEN NoSnapshot ELSE Snapshot(w.g)
    /\ config = DefaultConfig
    /\ last_op = NoOp
    /\ decays = 0
    /\ casc = IdleCascade
    /\ tasks = IdleTasks
    /\ locks = FreeLocks
    /\ acked = NoAcks
    /\ reply = NoReply

\* Database::discover_relationships
QueryDiscover(max_results) ==
    /\ \E r \in stable_matching(graph, neural_state, max_results) :
          reply' = r
    /\ last_op' = Call("discover_relationships", max_results, <<>>, Zero,
                       reply'.ok)
    /\ UNCHANGED <<graph, neural_state, config, now, ops, decays, casc,
                   tasks, locks, disk, acked>>

NextDiscover ==
    \/ QueryTick
    \/ QueryAddNode
    \/ \E ids \in QueryLists, x \in DiscoverStrengths :
          QueryConnectNodes(ids, x)
    \/ \E max_results \in MaxResults : QueryDiscover(max_results)
    \/ QueryFindSimilar(1, Zero)

SpecDiscover == InitDiscover /\ [][NextDiscover]_vars

\* the index pairs (i, j), i < j, of a list of n nodes in the order the
\* nested loop visits them
UpperTriangle(n) ==
    LET idx == {q \in (1..n) \X (1..n) : q[1] < q[2]}
        Rank(q) == Cardinality({r \in idx : \/ r[1] < q[1]
                                            \/ r[1] = q[1] /\ r[2] < q[2]})
    IN  [k \in 1..Cardinality(idx) |-> CHOOSE q \in idx : Rank(q) = k - 1]

\* the pairs of score above 0.5 among the active nodes taken in this
\* order, in the order the nested loop meets them
Qualifying(order) ==
    LET Scored(q) ==
            <<<<order[q[1]], order[q[2]]>>,
              calculate_complementarity(graph, neural_state, order[q[1]],
                                        order[q[2]]).val>>
        Above(m) == RGt(m[2], <<1, 2>>)
        ut == UpperTriangle(Len(order))
    IN  SelectSeq([k \in DOMAIN ut |-> Scored(ut[k])], Above)

\* C21: discover_relationships(max) returns at most max triples, sorted in
\* non-increasing order of score; every triple has two different nodes of
\* engine activation above 0.1 and a score above 0.5; no unordered pair
\* comes twice; and the triples are the first max qualifying pairs of the
\* nested loop over the active nodes in some iteration order.
C21_DiscoverResult ==
    [][last_op'.op = "discover_relationships" =>
        LET pairs == reply'.pairs
            max_results == last_op'.id
        IN  /\ reply'.ok
            /\ Len(pairs) <= max_results
            /\ \A i, j \in DOMAIN pairs :
                  i < j => RGe(pairs[i][2], pairs[j][2])
            /\ \A i \in DOMAIN pairs :
                  /\ pairs[i][1][1] # pairs[i][1][2]
                  /\ RGt(Activation(neural_state, pairs[i][1][1]), <<1, 10>>)
                  /\ RGt(Activation(neural_state, pairs[i][1][2]), <<1, 10>>)
                  /\ RGt(pairs[i][2], <<1, 2>>)
            /\ \A i, j \in DOMAIN pairs :
                  Range(pairs[i][1]) = Range(pairs[j][1]) => i = j
            /\ \E order \in Orderings(ActiveNodes(neural_state)) :
                  LET q == Qualifying(order)
                      first == Truncate(q, max_results)
                  IN  /\ Len(pairs) = Len(first)
                      /\ Range(pairs) = Range(first)]_vars

\* discover_relationships(1) returned one pair although another pair of
\* active nodes has a higher score.
C21_Witness ==
    /\ last_op.op = "discover_relationships"
    /\ last_op.id = 1
    /\ Len(reply.pairs) = 1
    /\ \E a, b \in ActiveNodes(neural_state) :
          RGt(calculate_complementarity(graph, neural_state, a, b).val,
              reply.pairs[1][2])

\* node n has been made active by connect_nodes([n], _, 0.8)
SelfActivated(n) ==
    /\ n \in DOMAIN graph.nodes
    /\ \E e \in DOMAIN graph.edges :
          /\ graph.edges[e].node_ids = <<n>>
          /\ graph.edges[e].strength = <<4, 5>>
    /\ Activation(neural_state, n) = <<4, 5>>

\* C22: when two nodes have each been made active by a single-node
\* hyperedge of strength 0.8 and share no neighbour,
\* discover_relationships(5) returns a non-empty list.
C22_ActivePairDiscovered ==
    [][(/\ last_op'.op = "discover_relationships"
        /\ last_op'.id = 5
        /\ \E a, b \in DOMAIN graph.nodes :
              /\ a # b
              /\ SelfActivated(a)
              /\ SelfActivated(b)
              /\ get_neighbors(graph, a) \cap get_neighbors(graph, b) = {})
            => reply'.pairs # <<>>]_vars

\* the store holds the nodes X, Y, Z = 1, 2, 3 and exactly the edges
\* {X,Y}, {X,Z}, {Y,Z}, each of strength 0.5
IsTriangle ==
    /\ DOMAIN graph.nodes = {1, 2, 3}
    /\ {graph.edges[e].node_ids : e \in DOMAIN graph.edges}
          = {<<1, 2>>, <<1, 3>>, <<2, 3>>}
    /\ edge_count(graph) = 3
    /\ \A e \in DOMAIN graph.edges : graph.edges[e].strength = <<1, 2>>

\* find_similar(X, 0.0) has just been answered on the triangle
TriangleAnswered ==
    /\ last_op'.op = "find_similar"
    /\ last_op'.id = 1
    /\ last_op'.val = Zero
    /\ now' = now
    /\ IsTriangle

\* C23 as stated: on the triangle, find_similar(X, 0.0) returns both Y and
\* Z, each with total score 1.0.
C23_TriangleScoresOne ==
    [][TriangleAnswered =>
          /\ {reply'.pairs[i][1] : i \in DOMAIN reply'.pairs} = {2, 3}
          /\ \A i \in DOMAIN reply'.pairs : reply'.pairs[i][2] = One]_vars

\* C23 amended: on the triangle, find_similar(X, 0.0) returns both Y and
\* Z once each; X shares one of its two neighbours with each of them, so
\* the structural term is 1/2 and the total score is 0.4 + 0.2 + 0.2 times
\* the temporal term: 0.8 when the two spike counts in the window are
\* equal, 0.7 when one is half the other, never 1.0.
C23_TriangleScores ==
    [][TriangleAnswered =>
          /\ Len(reply'.pairs) = 2
          /\ {reply'.pairs[i][1] : i \in DOMAIN reply'.pairs} = {2, 3}
          /\ \A n \in {2, 3} :
                /\ Cardinality(get_neighbors(graph, 1)
                                  \cap get_neighbors(graph, n)) = 1
                /\ Cardinality(get_neighbors(graph, 1)) = 2
                /\ Cardinality(get_neighbors(graph, n)) = 2
          /\ \A i \in DOMAIN reply'.pairs :
                LET n == reply'.pairs[i][1]
                    c1 == RecentSpikes(neural_state, 1, now)
                    cn == RecentSpikes(neural_state, n, now)
                IN  reply'.pairs[i][2] =
                        IF c1 = cn THEN <<4, 5>> ELSE <<7, 10>>]_vars

\* find_similar(X, 0.0) on the triangle returned Y and Z, one with score
\* 0.8 and one with score 0.7.
C23_Witness ==
    /\ last_op.op = "find_similar"
    /\ IsTriangle
    /\ Len(reply.pairs) = 2
    /\ reply.pairs[1][2] = <<4, 5>>
    /\ reply.pairs[2][2] = <<7, 10>>

-----------------------------------------------------------------------------
(* NetworkAnalyzer::find_optimal_pairs, src/src/network.rs.  The store it  *)
(* reads is given by the alignment score of every two of its nodes.        *)

MaxPairNodes == 4    \* nodes of the store find_optimal_pairs reads
MaxCandidates == 4   \* longest candidate list
MaxPairs == 3        \* largest max_pairs argument
MaxPairOps == 1      \* find_optimal_pairs calls per behaviour

PairNodes == 1..MaxPairNodes

\* the alignment_type of a score, and its factor in
\* calculate_potential_value
PotentialFactor(score) ==
    IF RGe(score, <<4, 5>>) THEN 10
    ELSE IF RGe(score, <<3, 5>>) THEN 7
    ELSE IF RGe(score, <<2, 5>>) THEN 4
    ELSE IF RGe(score, <<1, 5>>) THEN 2
    ELSE 0

\* NetworkAnalyzer::analyze_goal_alignment, for a store whose alignment
\* scores are given; a GoalAlignment is
\* <<<<node1, node2>>, potential_value, alignment_score>>
analyze_goal_alignment(scores, node1, node2) ==
    IF node1 \notin PairNodes \/ node2 \notin PairNodes
    THEN [ok |-> FALSE, val |-> <<>>]
    ELSE LET alignment_score == scores[{node1, node2}]
         IN  [ok |-> TRUE,
              val |-> <<<<node1, node2>>,
                        RMul(alignment_score,
                             <<PotentialFactor(alignment_score), 1>>),
                        alignment_score>>]

\* the (node2, alignment_score) entries pushed for node1, in input order
Pushed(scores, candidate_nodes, node1) ==
    LET Kept(node2) ==
            node2 # node1 /\ analyze_goal_alignment(scores, node1, node2).ok
        kept == SelectSeq(candidate_nodes, Kept)
    IN  [k \in DOMAIN kept |-> <<kept[k], scores[{node1, kept[k]}]>>]

\* a mutant of the preference list: it is left in input order
PreferencesUnsorted(scores, candidate_nodes, node1) ==
    Pushed(scores, candidate_nodes, node1)

\* preferences[node1]: the other candidates, highest score first
Preferences(scores, candidate_nodes, node1) ==
    SortDesc(Pushed(scores, candidate_nodes, node1))

\* the greedy loop of find_optimal_pairs from candidate i on
RECURSIVE GreedyFrom(_, _, _, _, _, _)
GreedyFrom(scores, candidate_nodes, i, max_pairs, pairs, matched) ==
    IF i > Len(candidate_nodes)
    THEN pairs
    ELSE IF candidate_nodes[i] \in matched
    THEN GreedyFrom(scores, candidate_nodes, i + 1, max_pairs, pairs, matched)
    ELSE LET node1 == candidate_nodes[i]
             node_prefs == Preferences(scores, candidate_nodes, node1)
             free == {k \in DOMAIN node_prefs :
                         /\ node_prefs[k][1] \notin matched
                         /\ RGt(node_prefs[k][2], <<3, 10>>)}
             k == CHOOSE k \in free : \A l \in free : k <= l
             pairs2 == IF free = {} THEN pairs
                       ELSE Append(pairs,
                                analyze_goal_alignment(scores, node1,
                                                       node_prefs[k][1]).val)
             matched2 == IF free = {} THEN matched
                         ELSE matched \cup {node1, node_prefs[k][1]}
         IN  IF Len(pairs2) >= max_pairs
             THEN pairs2
             ELSE GreedyFrom(scores, candidate_nodes, i + 1, max_pairs,
                             pairs2, matched2)

\* NetworkAnalyzer::find_optimal_pairs
find_optimal_pairs(scores, candidate_nodes, max_pairs) ==
    Truncate(SortDesc(GreedyFrom(scores, candidate_nodes, 1, max_pairs,
                                 <<>>, {})),
             max_pairs)

\* the unordered pairs of nodes of the store
NodePairs == {{a, b} : a, b \in PairNodes} \ {{a} : a \in PairNodes}

\* the scores of the spec's greedy pairing scenario; C(2,4) is not given
\* there and is taken as 0.2
GreedyScenario ==
    [p \in NodePairs |->
        IF p = {1, 2} THEN <<9, 10>>
        ELSE IF p = {1, 3} THEN <<4, 5>>
        ELSE IF p = {1, 4} THEN <<7, 10>>
        ELSE IF p = {2, 3} THEN <<19, 20>>
        ELSE IF p = {3, 4} THEN <<3, 5>>
        ELSE <<1, 5>>]

\* scores with ties, with a score of exactly 0.3 and with scores below it
TiedScores ==
    [p \in NodePairs |->
        IF p = {1, 2} THEN <<3, 10>>
        ELSE IF p = {1, 3} THEN <<3, 10>>
        ELSE IF p = {1, 4} THEN <<1, 4>>
        ELSE IF p = {2, 3} THEN <<1, 2>>
        ELSE IF p = {2, 4} THEN <<1, 2>>
        ELSE <<17, 20>>]

\* every two nodes score the same, above 0.3
FlatScores == [p \in NodePairs |-> <<2, 5>>]

ScoreTables == {GreedyScenario, TiedScores, FlatScores}

\* candidate lists: ids of the store, 0 for an id that is in no store,
\* repetitions allowed
CandidateLists == SeqsUpTo(PairNodes \cup {0}, MaxCandidates)

InitPairs ==
    /\ graph = NewGraph
    /\ neural_state = NewNeuralState
    /\ config = DefaultConfig
    /\ now = 0
    /\ last_op = NoOp
    /\ ops = 0
    /\ decays = 0
    /\ casc = IdleCascade
    /\ tasks = IdleTasks
    /\ locks = FreeLocks
    /\ disk = NoSnapshot
    /\ acked = NoAcks
    /\ reply = NoReply

FindOptimalPairs(scores, candidate_nodes, max_pairs) ==
    /\ ops < MaxPairOps
    /\ ops' = ops + 1
    /\ reply' = [ok |-> TRUE,
                 pairs |-> find_optimal_pairs(scores, candidate_nodes,
                                              max_pairs)]
    /\ last_op' = Call("find_optimal_pairs", max_pairs, candidate_nodes,
                       scores, TRUE)
    /\ UNCHANGED <<graph, neural_state, config, now, decays, casc, tasks,
                   locks, disk, acked>>

NextPairs ==
    \E scores \in ScoreTables, candidate_nodes \in CandidateLists,
       max_pairs \in 0..MaxPairs :
        FindOptimalPairs(scores, candidate_nodes, max_pairs)

SpecPairs == InitPairs /\ [][NextPairs]_vars

\* the position of a node's first occurrence in a candidate list
FirstAt(candidate_nodes, n) ==
    CHOOSE k \in DOMAIN candidate_nodes :
        /\ candidate_nodes[k] = n
        /\ \A l \in DOMAIN candidate_nodes : candidate_nodes[l] = n => k <= l

\* the nodes of the returned pairs whose first node comes before position k
TakenBefore(candidate_nodes, pairs, k) ==
    UNION {{pairs[j][1][1], pairs[j][1][2]} : j \in
             {j \in DOMAIN pairs :
                 FirstAt(candidate_nodes, pairs[j][1][1]) < k}}

\* the partners a candidate at position k may still take: known nodes,
\* other than itself, in no pair made before k, scoring above 0.3
Available(scores, candidate_nodes, pairs, k) ==
    {c \in (Range(candidate_nodes) \cap PairNodes) \ {candidate_nodes[k]} :
        /\ candidate_nodes[k] \in PairNodes
        /\ c \notin TakenBefore(candidate_nodes, pairs, k)
        /\ RLt(<<3, 10>>, scores[{candidate_nodes[k], c}])}

\* C27: find_optimal_pairs returns at most max_pairs pairs, no node in two
\* of them, ordered by descending potential value; with max_pairs >= 1 the
\* pairs are those of the greedy pass over the candidates in input order:
\* each first node takes its highest-scoring partner that is still
\* unmatched and scores above 0.3, and a candidate left unpaired before
\* the pass stopped had no such partner; on the spec's scenario with
\* max_pairs = 2 the pairs are 1-2 and 3-4.
C27_GreedyPairs ==
    last_op.op = "find_optimal_pairs" =>
        LET max_pairs == last_op.id
            candidate_nodes == last_op.node_ids
            scores == last_op.val
            pairs == reply.pairs
            First(j) == FirstAt(candidate_nodes, pairs[j][1][1])
            stopped == IF Len(pairs) >= max_pairs
                       THEN {First(j) : j \in DOMAIN pairs}
                       ELSE {}
        IN  /\ Len(pairs) <= max_pairs
            /\ \A j \in DOMAIN pairs :
                   /\ pairs[j][1][1] # pairs[j][1][2]
                   /\ {pairs[j][1][1], pairs[j][1][2]} \subseteq
                          Range(candidate_nodes)
                   /\ pairs[j][3] = scores[{pairs[j][1][1], pairs[j][1][2]}]
            /\ \A j, l \in DOMAIN pairs :
                   j # l => {pairs[j][1][1], pairs[j][1][2]} \cap
                            {pairs[l][1][1], pairs[l][1][2]} = {}
            /\ \A j, l \in DOMAIN pairs :
                   j < l => ~RLt(pairs[j][2], pairs[l][2])
            /\ max_pairs >= 1 =>
                   /\ \A j \in DOMAIN pairs :
                          LET free == Available(scores, candidate_nodes,
                                                pairs, First(j))
                          IN  /\ pairs[j][1][2] \in free
                              /\ \A c \in free :
                                     ~RLt(pairs[j][3],
                                             scores[{pairs[j][1][1], c}])
                   /\ \A k \in DOMAIN candidate_nodes :
                          (/\ \A j \in DOMAIN pairs :
                                  candidate_nodes[k] \notin
                                      {pairs[j][1][1], pairs[j][1][2]}
                           /\ \A m \in stopped : k < m)
                          => Available(scores, candidate_nodes, pairs, k) = {}
            /\ (/\ scores = GreedyScenario
                /\ candidate_nodes = <<1, 2, 3, 4>>
                /\ max_pairs = 2)
               => /\ Len(pairs) = 2
                  /\ pairs[1][1] = <<1, 2>>
                  /\ pairs[2][1] = <<3, 4>>

\* the scenario's call has returned 1-2 and 3-4, whose scores sum to less
\* than those of 2-3 and 1-4
C27_Witness ==
    /\ last_op.op = "find_optimal_pairs"
    /\ last_op.val = GreedyScenario
    /\ last_op.node_ids = <<1, 2, 3, 4>>
    /\ last_op.id = 2
    /\ Len(reply.pairs) = 2
    /\ reply.pairs[1][1] = <<1, 2>>
    /\ reply.pairs[2][1] = <<3, 4>>
    /\ RLt(RAdd(reply.pairs[1][3], reply.pairs[2][3]),
              RAdd(GreedyScenario[{2, 3}], GreedyScenario[{1, 4}]))

-----------------------------------------------------------------------------
(* The coordinator over a data directory that outlives it: writes as in    *)
(* SpecQuery, and Database::new called again on the same directory after   *)
(* the coordinator was dropped.                                            *)

\* Database::new on the directory as the last save left it: a new store,
\* a new engine, then load_from_storage
QueryOpen ==
    /\ ops < MaxQueryOps
    /\ ops' = ops + 1
    /\ graph' = load_from_storage(NewGraph, disk).g
    /\ neural_state' = NewNeuralState
    /\ last_op' = Call("new", 0, <<>>, Zero,
                       load_from_storage(NewGraph, disk).ok)
    /\ reply' = NoReply
    /\ UNCHANGED <<config, now, decays, casc, tasks, locks, disk, acked>>

\* participant lists, those that name one node twice included
ReopenLists == QueryLists \cup {<<n, n>> : n \in QueryIds}

NextReopen ==
    \/ QueryTick
    \/ QueryAddNode
    \/ \E ids \in ReopenLists, x \in QueryStrengths :
          QueryConnectNodes(ids, x)
    \/ QueryOpen

SpecReopen == InitQuery /\ [][NextReopen]_vars

-----------------------------------------------------------------------------
(* SpecSurface: the engine driven directly, every operation of it, beside  *)
(* a store in which the nodes are joined by an edge.                       *)

\* nodes 1..MaxNodes joined in a chain of edges of strength 0.8
SurfaceGraph == Built(MaxNodes, ChainEdges(MaxNodes), [k \in 1..MaxNodes - 1 |-> <<4, 5>>])

SurfaceCorrelations == {One, <<-150, 1>>}

InitSurface ==
    /\ graph = SurfaceGraph
    /\ neural_state = NewNeuralState
    /\ config \in Configs
    /\ now = 0
    /\ last_op = NoOp
    /\ ops = 0
    /\ decays = 0
    /\ casc = IdleCascade
    /\ tasks = IdleTasks
    /\ locks = FreeLocks
    /\ disk = NoSnapshot
    /\ acked = NoAcks
    /\ reply = NoReply

NextSurface ==
    \/ EngineTick
    \/ \E id \in NodeIds : ProcessNewNode(id)
    \/ \E ss \in SourceLists, x \in Intensities : PropagateSpike(ss, x)
    \/ ApplyTemporalDecay
    \/ \E node1, node2 \in NodeIds, c \in SurfaceCorrelations :
          UpdateSynapticWeights(node1, node2, c)

SpecSurface == InitSurface /\ [][NextSurface]_vars

\* the value a map holds for a key, or "none"
Entry(f, k) == IF k \in DOMAIN f THEN <<f[k]>> ELSE <<>>

\* C31: propagate_spike(sources, intensity) changes the activation, the
\* refractory entry and the spike history only of nodes listed in sources:
\* the activation and refractory entry of every other node, neighbours of
\* the sources included, and all synaptic weights are as before, and the
\* history is the old one followed by events of sources.
C31_SurfaceLevel ==
    [][(last_op'.op = "propagate_spike" /\ ops' = ops + 1) =>
        LET sources == Range(last_op'.node_ids)
            old == neural_state.spike_history
            new == neural_state'.spike_history
        IN  /\ \A n \in NodeIds \ sources :
                  /\ Entry(neural_state'.activations, n)
                         = Entry(neural_state.activations, n)
                  /\ Entry(neural_state'.refractory_until, n)
                         = Entry(neural_state.refractory_until, n)
            /\ neural_state'.synaptic_weights = neural_state.synaptic_weights
            /\ Len(new) >= Len(old)
            /\ SubSeq(new, 1, Len(old)) = old
            /\ \A k \in (Len(old) + 1)..Len(new) : new[k].node_id \in sources
      ]_vars

\* C31 witness: a propagate_spike on node 1 alone has spiked it, while its
\* neighbour 2 keeps another activation and no refractory entry, and a
\* synaptic weight is stored.
C31_Witness ==
    /\ last_op.op = "propagate_spike"
    /\ last_op.node_ids = <<1>>
    /\ 2 \in get_neighbors(graph, 1)
    /\ 1 \in DOMAIN neural_state.activations
    /\ neural_state.activations[1] = last_op.val
    /\ 2 \in DOMAIN neural_state.activations
    /\ neural_state.activations[2] # last_op.val
    /\ 2 \notin DOMAIN neural_state.refractory_until
    /\ neural_state.synaptic_weights # EmptyMap

\* the number z is the product of the numbers x and y
IsProduct(z, x, y) == z[2] # 0 /\ z[1] * x[2] * y[2] = x[1] * y[1] * z[2]

\* C33: apply_temporal_decay multiplies every activation of the engine by
\* decay_rate, adds 1 to processing_cycles and removes exactly the
\* refractory_until entries whose time is <= now, so that the nodes
\* propagate_spike rejects at that instant are the same before and after;
\* total_spikes and the synaptic weights are as before.
C33_SweepKeepsLiveRefractories ==
    [][(last_op'.op = "apply_temporal_decay" /\ decays' = decays + 1) =>
        LET old == neural_state
            new == neural_state'
        IN  /\ DOMAIN new.activations = DOMAIN old.activations
            /\ \A n \in DOMAIN old.activations :
                   IsProduct(new.activations[n], old.activations[n],
                             config.decay_rate)
            /\ new.processing_cycles = old.processing_cycles + 1
            /\ DOMAIN new.refractory_until =
                   {n \in DOMAIN old.refractory_until :
                       ~(old.refractory_until[n] <= now)}
            /\ \A n \in DOMAIN new.refractory_until :
                   new.refractory_until[n] = old.refractory_until[n]
            /\ Blocked(new, [i \in NodeIds |-> i], now)
                   = Blocked(old, [i \in NodeIds |-> i], now)
            /\ new.total_spikes = old.total_spikes
            /\ new.synaptic_weights = old.synaptic_weights]_vars

\* C33 witness: a sweep has run at the instant the refractory entry of
\* node 1 ended, while node 2, spiked later, is still refractory: the entry
\* of 1 is gone, that of 2 is kept, both spikes stay counted.
C33_Witness ==
    /\ last_op.op = "apply_temporal_decay"
    /\ neural_state.processing_cycles = 1
    /\ neural_state.total_spikes = 2
    /\ 1 \notin DOMAIN neural_state.refractory_until
    /\ \E k \in DOMAIN neural_state.spike_history :
          /\ neural_state.spike_history[k].node_id = 1
          /\ neural_state.spike_history[k].timestamp
                 + config.refractory_period = now
    /\ config.refractory_period > 0
    /\ 2 \in DOMAIN neural_state.refractory_until
    /\ now < neural_state.refractory_until[2]
    /\ 1 \in DOMAIN neural_state.activations
    /\ RLt(Zero, neural_state.activations[1])

\* C34: a successful connect_nodes(ids, _, strength) gives every
\* participant that is not refractory at that moment the activation
\* strength and a fresh refractory entry, leaves the activation of the
\* refractory participants as it was, and adds to total_spikes the number
\* of participants it spiked.
C34_ConnectSpikesParticipants ==
    [][(last_op'.op = "connect_nodes" /\ last_op'.ok /\ ops' = ops + 1) =>
        LET held == Blocked(neural_state, last_op'.node_ids, now)
            spiked == Range(last_op'.node_ids) \ held
        IN  /\ \A n \in spiked :
                   /\ Entry(neural_state'.activations, n) = <<last_op'.val>>
                   /\ Entry(neural_state'.refractory_until, n)
                          = <<now + config.refractory_period>>
            /\ \A n \in held :
                   /\ Entry(neural_state'.activations, n)
                          = Entry(neural_state.activations, n)
                   /\ Entry(neural_state'.refractory_until, n)
                          = Entry(neural_state.refractory_until, n)
            /\ neural_state'.total_spikes
                   = neural_state.total_spikes + Cardinality(spiked)]_vars

\* C34 witness: connect_nodes on nodes 1 and 2 has returned Ok while 1 was
\* refractory from an earlier connect_nodes of another strength: 2 has the
\* new strength, 1 the old one, and two spikes are counted in all.
C34_Witness ==
    /\ last_op.op = "connect_nodes"
    /\ last_op.ok
    /\ last_op.node_ids = <<1, 2>>
    /\ neural_state.activations[2] = last_op.val
    /\ neural_state.activations[1] # last_op.val
    /\ neural_state.refractory_until[1] > now
    /\ neural_state.refractory_until[2] = now + config.refractory_period
    /\ neural_state.total_spikes = 2
    /\ edge_count(graph) = 2

=============================================================================
